---- MODULE Spec2Model ----
(***************************************************************************)
(* Model of the checkpointed note pipeline of mcp-apple-notes:             *)
(*   - CheckpointManager (utils/checkpoint, kept in src/utils/progress.ts) *)
(*   - the JSON file helpers (utils/json)                                  *)
(*   - EnrichmentService.processNotes (services/enrichment.ts)             *)
(*   - OpenAIService: rate limiter and retry wrapper (services/openai)     *)
(*                                                                         *)
(* startTime is kept, read off a logical clock.  The other timestamps      *)
(* (completionTime, lastProcessedTime, lastUpdated, createdAt) are never   *)
(* read by a branch of the modelled code; they are not part of the state.  *)
(***************************************************************************)
EXTENDS Integers, Sequences, FiniteSets

VARIABLES
    metadata,       \* CheckpointManager.metadata
    files,          \* path -> content of the data directory
    lastCall,       \* the last tracker call of the sequential caller, and how it ended
    lastResult,     \* what that call returned
    calls,          \* number of tracker calls made by the sequential caller
    before,         \* this.metadata as it was when that call was made
    pc,             \* where processNotes stands
    args,           \* its arguments: notes, batchSize, parallelLimit
    i,              \* the batch loop variable
    enrich,         \* per batch position: the limit()-wrapped enrichNote call
    saves,          \* per batch position: the save callback of lines 149-157
    records,        \* per batch position: the updateNoteProgress(false) call of line 165
    errors,         \* the errors array
    processedCount,
    caught,         \* the error message the catch block received
    pending,        \* writeFile calls in flight
    attempts,       \* per note position: enrichNote invocations in this run
    results,        \* per note position: how enrichNote ended in this run
    runs,           \* number of processNotes calls so far
    crashes,        \* number of process crashes so far
    lost,           \* the writeFile calls the last crash interrupted
    ioFailed,       \* a writeFile call on a valid path failed during this run
    svc,            \* the OpenAIService instance: maxRetries, token counters, last times
    ops,            \* per external call: where it stands and what it has done
    clock,          \* Date.now()
    issued,         \* the requests sent to the API: type, tokens, time
    index,          \* the call of NotesService.indexNotes: its position and locals
    flagManager,    \* the FeatureFlagManager, DEFAULT_FEATURE_FLAGS and the configuration file
    stageRun        \* the call of a checkpoint-driven stage function: its position and locals

\* the OpenAIService and its calls
serviceVars == <<svc, ops, clock, issued>>

\* everything that belongs to the checkpoint tracker and its runs
checkpointVars == <<metadata, files, lastCall, lastResult, calls, before,
                    pc, args, i, enrich, saves, records, errors, processedCount, caught,
                    pending, attempts, results, runs, crashes, lost, ioFailed, index, flagManager, stageRun>>

callerVars == <<lastCall, lastResult, calls, before, serviceVars, index, flagManager, stageRun>>

runVars == <<pc, args, i, enrich, saves, records, errors, processedCount, caught,
             pending, attempts, results, runs, crashes, lost, ioFailed, serviceVars, index, flagManager, stageRun>>

\* everything but the CheckpointManager, the files and indexNotes
restVars == <<lastCall, lastResult, calls, before,
              pc, args, i, enrich, saves, records, errors, processedCount, caught,
              pending, attempts, results, runs, crashes, lost, ioFailed, serviceVars,
              flagManager, stageRun>>

vars == <<metadata, files, lastCall, lastResult, calls, before, pc, args, i, enrich, saves,
          records, errors, processedCount, caught, pending, attempts, results, runs,
          crashes, lost, ioFailed, svc, ops, clock, issued, index, flagManager, stageRun>>

----------------------------------------------------------------------------
(* Bounds *)

MaxNotes == 2

MaxCalls == 3

----------------------------------------------------------------------------
(* Data: enums and documents (progress.ts 143-184) *)

RAW_EXPORT == "raw_export"

ENRICHMENT == "enrichment"

CLUSTERING == "clustering"

FINAL_MERGE == "final_merge"

ProcessingStage == {RAW_EXPORT, ENRICHMENT, CLUSTERING, FINAL_MERGE}

NOT_STARTED == "not_started"

IN_PROGRESS == "in_progress"

COMPLETED == "completed"

FAILED == "failed"

StageStatus == {NOT_STARTED, IN_PROGRESS, COMPLETED, FAILED}

\* `error?: string` of StageProgress when it is undefined
Undefined == "<undefined>"

\* `private metadata: CheckpointMetadata | null = null`
Null == [null |-> TRUE]

Range(s) == {s[k] : k \in 1..Len(s)}

Includes(s, x) == \E k \in 1..Len(s) : s[k] = x

Digit == <<"0", "1", "2", "3", "4", "5", "6", "7", "8", "9">>

RECURSIVE toString(_)
\* Number.prototype.toString() of a non-negative integer
toString(n) ==
    IF n < 10 THEN Digit[n + 1]
    ELSE toString(n \div 10) \o Digit[(n % 10) + 1]

\* the stage entry written for each stage of a new document
EmptyStage == [status |-> NOT_STARTED,
               processedNoteIds |-> <<>>,
               failedNoteIds |-> <<>>,
               startTime |-> Undefined,
               error |-> Undefined]

\* new Date().toISOString() at tick n of the clock
Time(n) == "t" \o toString(n)

\* the metadata literal of initialize's else-branch
NewMetadata(totalNotes) ==
    [version |-> "1.0.0",
     totalNotes |-> totalNotes,
     stages |-> [s \in ProcessingStage |-> EmptyStage]]

----------------------------------------------------------------------------
(* The file system and utils/json *)

FULL_PATH == "data/checkpoint.json"

Path(p) == [path |-> p]

IsPath(x) == DOMAIN x = {"path"}

Absent == [absent |-> TRUE]

\* a file opened for writing whose content has not been written yet
Truncated == [truncated |-> TRUE]

\* writeJSON<T>(data: T, filePath: string): stringify `data`, then
\* writeFile(filePath, ...).  writeFile rejects a `filePath` that is not a
\* path before it touches any file; the rejection is rethrown as
\* JSONFileError.
writeJSON(data, filePath) ==
    IF IsPath(filePath)
    THEN [threw |-> FALSE, target |-> filePath.path, content |-> data]
    ELSE [threw |-> TRUE, target |-> "", content |-> data]

\* saveMetadata with the document first and the path second
saveMetadata_documentFirst(md) == writeJSON(md, Path(FULL_PATH))

\* saveMetadata: writeJSON(CHECKPOINT_CONFIG.FULL_PATH, <deep copy of metadata>)
\* -- the path is passed in the `data` position and the document in the
\* `filePath` position.
saveMetadata(md) == writeJSON(Path(FULL_PATH), md)

\* a write that ran to completion
WriteDone(fs, w) ==
    IF w.threw THEN fs ELSE [fs EXCEPT ![w.target] = w.content]

fileExists(fs, p) == fs[p] # Absent

\* readJSON: JSON.parse of the content; a truncated file is not valid JSON
readJSONThrows(fs, p) == fs[p] = Absent \/ fs[p] = Truncated

----------------------------------------------------------------------------
(* CheckpointManager: the in-memory effect of each mutator *)

\* startStage that leaves a prior error in place
StartStageDoc_keepError(md, stage, now) ==
    [md EXCEPT !.stages[stage].status = IN_PROGRESS,
               !.stages[stage].startTime = now]

\* startStage, lines 271-273
StartStageDoc(md, stage, now) ==
    [md EXCEPT !.stages[stage].status = IN_PROGRESS,
               !.stages[stage].startTime = now,
               !.stages[stage].error = Undefined]

\* updateNoteProgress that takes a failed id out of processedNoteIds
UpdateNoteDoc_moveOnFailure(md, stage, noteId, success) ==
    LET sp == md.stages[stage] IN
    IF success
    THEN IF ~Includes(sp.processedNoteIds, noteId)
         THEN [md EXCEPT !.stages[stage].processedNoteIds = Append(@, noteId)]
         ELSE md
    ELSE [md EXCEPT !.stages[stage].processedNoteIds = SelectSeq(@, LAMBDA x : x # noteId),
                    !.stages[stage].failedNoteIds =
                        IF Includes(@, noteId) THEN @ ELSE Append(@, noteId)]

\* updateNoteProgress without the includes() tests
UpdateNoteDoc_alwaysPush(md, stage, noteId, success) ==
    IF success
    THEN [md EXCEPT !.stages[stage].processedNoteIds = Append(@, noteId)]
    ELSE [md EXCEPT !.stages[stage].failedNoteIds = Append(@, noteId)]

\* updateNoteProgress, lines 285-294
UpdateNoteDoc(md, stage, noteId, success) ==
    LET sp == md.stages[stage] IN
    IF success
    THEN IF ~Includes(sp.processedNoteIds, noteId)
         THEN [md EXCEPT !.stages[stage].processedNoteIds = Append(@, noteId)]
         ELSE md
    ELSE IF ~Includes(sp.failedNoteIds, noteId)
         THEN [md EXCEPT !.stages[stage].failedNoteIds = Append(@, noteId)]
         ELSE md

\* completeStage, lines 308-309
CompleteStageDoc(md, stage) ==
    [md EXCEPT !.stages[stage].status = COMPLETED]

\* failStage that drops its message
FailStageDoc_statusOnly(md, stage, error) ==
    [md EXCEPT !.stages[stage].status = FAILED]

\* failStage, lines 322-324
FailStageDoc(md, stage, error) ==
    [md EXCEPT !.stages[stage].status = FAILED,
               !.stages[stage].error = error]

NullNote == [kind |-> "null"]

StringResult(s) == [kind |-> "string", value |-> s]

NoResult == [kind |-> "void"]

\* a JavaScript number: the quotient num/den, or NaN, or Infinity
Number(num, den) == [kind |-> "number", num |-> num, den |-> den]

NaN == [kind |-> "NaN"]

Infinity == [kind |-> "Infinity"]

\* processed / totalNotes for non-negative integers: 0/0 is NaN, n/0 Infinity
Divide(processed, totalNotes) ==
    IF totalNotes # 0 THEN Number(processed, totalNotes)
    ELSE IF processed = 0 THEN NaN ELSE Infinity

\* x * 100
Times100(x) ==
    IF x.kind = "number" THEN Number(x.num * 100, x.den) ELSE x

\* getStageProgressPercentage, lines 346-348
getStageProgressPercentage(md, stage) ==
    Times100(Divide(Len(md.stages[stage].processedNoteIds), md.totalNotes))

RECURSIVE ScanFrom(_, _, _)
\* the for loop of getNextNoteForStage, from index i
ScanFrom(md, stage, idx) ==
    IF idx < md.totalNotes
    THEN LET noteId == toString(idx)
             sp == md.stages[stage]
         IN IF ~Includes(sp.processedNoteIds, noteId) /\ ~Includes(sp.failedNoteIds, noteId)
            THEN StringResult(noteId)
            ELSE ScanFrom(md, stage, idx + 1)
    ELSE NullNote

RECURSIVE ScanProcessedOnly(_, _, _)
\* the scan with the failedNoteIds test left out
ScanProcessedOnly(md, stage, idx) ==
    IF idx < md.totalNotes
    THEN IF ~Includes(md.stages[stage].processedNoteIds, toString(idx))
         THEN StringResult(toString(idx))
         ELSE ScanProcessedOnly(md, stage, idx + 1)
    ELSE NullNote

getNextNoteForStage_processedOnly(md, stage) == ScanProcessedOnly(md, stage, 0)

getNextNoteForStage(md, stage) == ScanFrom(md, stage, 0)

----------------------------------------------------------------------------
(* Inputs *)

TotalNotesInputs == 0..MaxNotes

\* ids "0" .. toString(MaxNotes): the last one is outside 0..totalNotes-1
NoteIdInputs == {toString(n) : n \in 0..MaxNotes}

ErrorInputs == {"Test error", "No notes provided for processing"}

\* the stages the callers below operate on; documents hold all four
StageInputs == {RAW_EXPORT, ENRICHMENT}

NotInitialized == "Checkpoint metadata not initialized"

\* checkpoint documents an earlier run may have left in the data directory
PreexistingDocs ==
    {[NewMetadata(n) EXCEPT !.stages[ENRICHMENT] =
          [status |-> st, processedNoteIds |-> pf[1],
           failedNoteIds |-> pf[2], startTime |-> Time(0), error |-> Undefined]] :
        n \in {MaxNotes}, st \in {IN_PROGRESS, COMPLETED},
        pf \in {<<<<>>, <<>>>>, <<<<"0">>, <<>>>>, <<<<>>, <<"0">>>>}}

EnrichedPath(noteId) == "data/enriched/note-" \o noteId \o ".json"

Paths == {FULL_PATH} \cup {EnrichedPath(id) : id \in NoteIdInputs}

NoArgs == [notes |-> <<>>, batchSize |-> 0, parallelLimit |-> 0]

Call(op, stage, noteId, success, threw) ==
    [op |-> op, stage |-> stage, noteId |-> noteId, success |-> success, threw |-> threw]

NoCall == Call("none", "", "", FALSE, "")

\* the clock read by a call: every tracker call and every run advances it
Now == Time(calls + runs + 1)

----------------------------------------------------------------------------
(* CheckpointManager operations, each awaited to its end *)

\* new CheckpointManager()
newCheckpointManager ==
    /\ calls < MaxCalls
    /\ UNCHANGED runVars
    /\ before' = metadata
    /\ metadata # Null
    /\ metadata' = Null
    /\ lastCall' = Call("new", "", "", FALSE, "")
    /\ lastResult' = NoResult
    /\ calls' = calls + 1
    /\ UNCHANGED files

\* initialize up to its saveMetadata call: the metadata it leaves in memory,
\* whether it goes on to save, and the error it throws before saving
initializeEffect(fs, md, totalNotes, dirOk) ==
    IF ~dirOk
    THEN \* ensureDirectory rejects
         [md |-> md, saves |-> FALSE, threw |-> "ensureDirectory"]
    ELSE IF fileExists(fs, FULL_PATH)
    THEN IF readJSONThrows(fs, FULL_PATH)
         THEN [md |-> md, saves |-> FALSE, threw |-> "Failed to initialize checkpoint"]
         ELSE LET read == fs[FULL_PATH] IN
              IF read.totalNotes # totalNotes
              THEN [md |-> [read EXCEPT !.totalNotes = totalNotes], saves |-> TRUE, threw |-> ""]
              ELSE [md |-> read, saves |-> FALSE, threw |-> ""]
    ELSE [md |-> NewMetadata(totalNotes), saves |-> TRUE, threw |-> ""]

initialize(totalNotes, dirOk) ==
    /\ calls < MaxCalls
    /\ UNCHANGED runVars
    /\ before' = metadata
    /\ calls' = calls + 1
    /\ lastResult' = NoResult
    /\ LET r == initializeEffect(files, metadata, totalNotes, dirOk)
           w == saveMetadata(r.md)
       IN /\ metadata' = r.md
          /\ files' = IF r.saves THEN WriteDone(files, w) ELSE files
          /\ lastCall' = Call("initialize", "", "", FALSE,
                IF r.threw # "" THEN r.threw
                ELSE IF r.saves /\ w.threw THEN "Failed to initialize checkpoint"
                ELSE "")

\* the common tail of the four mutators: `await this.saveMetadata()`
Persist(md, op, stage, noteId, success) ==
    LET w == saveMetadata(md) IN
    /\ metadata' = md
    /\ files' = WriteDone(files, w)
    /\ lastCall' = Call(op, stage, noteId, success, IF w.threw THEN "JSONFileError" ELSE "")

NotInitializedThrow(op, stage, noteId, success) ==
    /\ lastCall' = Call(op, stage, noteId, success, NotInitialized)
    /\ UNCHANGED <<metadata, files>>

\* startStage without the early return of lines 267-269
startStage_unguarded(stage) ==
    /\ calls < MaxCalls
    /\ UNCHANGED runVars
    /\ before' = metadata
    /\ calls' = calls + 1
    /\ lastResult' = NoResult
    /\ IF metadata = Null
       THEN NotInitializedThrow("startStage", stage, "", FALSE)
       ELSE Persist(StartStageDoc(metadata, stage, Now), "startStage", stage, "", FALSE)

startStage(stage) ==
    /\ calls < MaxCalls
    /\ UNCHANGED runVars
    /\ before' = metadata
    /\ calls' = calls + 1
    /\ lastResult' = NoResult
    /\ IF metadata = Null
       THEN NotInitializedThrow("startStage", stage, "", FALSE)
       ELSE IF metadata.stages[stage].status = IN_PROGRESS
       THEN /\ lastCall' = Call("startStage", stage, "", FALSE, "")
            /\ UNCHANGED <<metadata, files>>
       ELSE Persist(StartStageDoc(metadata, stage, Now), "startStage", stage, "", FALSE)

updateNoteProgress(stage, noteId, success) ==
    /\ calls < MaxCalls
    /\ UNCHANGED runVars
    /\ before' = metadata
    /\ calls' = calls + 1
    /\ lastResult' = NoResult
    /\ IF metadata = Null
       THEN NotInitializedThrow("updateNoteProgress", stage, noteId, success)
       ELSE Persist(UpdateNoteDoc(metadata, stage, noteId, success),
                    "updateNoteProgress", stage, noteId, success)

completeStage(stage) ==
    /\ calls < MaxCalls
    /\ UNCHANGED runVars
    /\ before' = metadata
    /\ calls' = calls + 1
    /\ lastResult' = NoResult
    /\ IF metadata = Null
       THEN NotInitializedThrow("completeStage", stage, "", FALSE)
       ELSE Persist(CompleteStageDoc(metadata, stage), "completeStage", stage, "", FALSE)

failStage(stage, error) ==
    /\ calls < MaxCalls
    /\ UNCHANGED runVars
    /\ before' = metadata
    /\ calls' = calls + 1
    /\ lastResult' = NoResult
    /\ IF metadata = Null
       THEN NotInitializedThrow("failStage", stage, "", FALSE)
       ELSE Persist(FailStageDoc(metadata, stage, error), "failStage", stage, "", FALSE)

getNextNoteForStageCall(stage) ==
    /\ calls < MaxCalls
    /\ UNCHANGED runVars
    /\ before' = metadata
    /\ calls' = calls + 1
    /\ IF metadata = Null
       THEN /\ lastCall' = Call("getNextNoteForStage", stage, "", FALSE, NotInitialized)
            /\ lastResult' = NoResult
       ELSE /\ lastCall' = Call("getNextNoteForStage", stage, "", FALSE, "")
            /\ lastResult' = getNextNoteForStage(metadata, stage)
    /\ UNCHANGED <<metadata, files>>

getStageProgressPercentageCall(stage) ==
    /\ calls < MaxCalls
    /\ UNCHANGED runVars
    /\ before' = metadata
    /\ calls' = calls + 1
    /\ IF metadata = Null
       THEN /\ lastCall' = Call("getStageProgressPercentage", stage, "", FALSE, NotInitialized)
            /\ lastResult' = NoResult
       ELSE /\ lastCall' = Call("getStageProgressPercentage", stage, "", FALSE, "")
            /\ lastResult' = getStageProgressPercentage(metadata, stage)
    /\ UNCHANGED <<metadata, files>>

----------------------------------------------------------------------------
(* OpenAIService: configuration and state (services/openai) *)

COMPLETIONS == "COMPLETIONS"

EMBEDDINGS == "EMBEDDINGS"

CallTypes == {COMPLETIONS, EMBEDDINGS}

\* RATE_LIMITS[type].TOKENS_PER_MINUTE
TOKENS_PER_MINUTE(type) == IF type = COMPLETIONS THEN 90000 ELSE 150000

MAX_RETRIES == 3

INITIAL_RETRY_DELAY == 1000

MAX_RETRY_DELAY == 8000

BACKOFF_FACTOR == 2

\* the literal of lines 66 and 76: one minute in milliseconds
MINUTE == 60000

\* the largest maxRetries a caller configures
MaxRetriesConfig == 5

\* the number of external calls made on one service
MaxOps == 3

\* how many times the clock advances
MaxTicks == 3

\* config.maxRetries: left out (<<>>), or a number from 0 up (<<n>>)
MaxRetriesInputs == {<<>>} \cup {<<n>> : n \in 0..MaxRetriesConfig}

\* estimated tokens of one call; each fits either budget on its own
TokenInputs == {50000, 80000}

OpIds == 1..MaxOps

\* a || b for an optional number a: undefined and 0 are falsy
OrElse(a, b) == IF a = <<>> \/ a[1] = 0 THEN b ELSE a[1]

\* the constructor, lines 45-49
OpenAIService(maxRetries) ==
    [maxRetries |-> OrElse(maxRetries, MAX_RETRIES),
     configured |-> maxRetries,
     tokens |-> [t \in CallTypes |-> 0],
     lastTime |-> [t \in CallTypes |-> 0]]

\* an external call that has not been made yet
NewOp == [phase |-> "new", type |-> COMPLETIONS, tokens |-> 0, now |-> 0, wakeAt |-> 0,
          retryCount |-> 0, invocations |-> 0, limited |-> 0, delays |-> <<>>]

\* Date.now() when the service is constructed: more than a minute after 0
StartClock == 2 * MINUTE

\* a service constructed with `maxRetries`, no call made yet
ServiceInit(maxRetries) ==
    /\ svc = OpenAIService(maxRetries)
    /\ ops = [o \in OpIds |-> NewOp]
    /\ clock = StartClock
    /\ issued = <<>>

----------------------------------------------------------------------------
(* NotesService.indexNotes: its locals (services/notes/NotesService) *)

\* no call of indexNotes has been made
IndexIdle ==
    [pc |-> "idle", runs |-> 0, testMode |-> FALSE, allNotes |-> 0, next |-> NullNote,
     startIndex |-> 0, i |-> 0, processedChunks |-> 0, unsettled |-> {}, attempted |-> {},
     thrown |-> ""]

----------------------------------------------------------------------------
(* Feature flags: config/featureFlags.ts, services/featureFlagManager.ts   *)

\* number of flags of the enum that are modelled
MaxFlags == 2

\* enum FeatureFlagName, in the order of its declaration
FlagNameList ==
    <<"rawExport", "enrichment", "clustering", "tagAggregation", "checkpointing",
      "parallelProcessing", "detailedLogging">>

FeatureFlagName == {FlagNameList[k] : k \in 1..MaxFlags}

isFeatureFlagName(name) == name \in FeatureFlagName

\* the object literal DEFAULT_FEATURE_FLAGS as the module is loaded: one flag
\* object per name (the description is left out)
DEFAULT_FEATURE_FLAGS ==
    [name \in FeatureFlagName |-> [enabled |-> TRUE, defaultValue |-> TRUE]]

\* the configuration file: absent ("missing"), not JSON ("invalidJSON"), or
\* a JSON object
UnreadableFile(kind) ==
    [kind |-> kind, doc |-> [name \in {} |-> [enabled |-> TRUE, defaultValue |-> TRUE]]]

JSONFile(config) == [kind |-> "json", doc |-> config]

\* a flag entry of a parsed document is an object with boolean enabled and
\* defaultValue
isValidFeatureFlag(config, name) ==
    /\ name \in DOMAIN config
    /\ config[name].enabled \in BOOLEAN
    /\ config[name].defaultValue \in BOOLEAN

isValidFeatureFlagsConfig(config) ==
    \A name \in FeatureFlagName : isValidFeatureFlag(config, name)

\* loadJsonFile rejects when readFile or JSON.parse throws
loadJsonFileThrows(file) == file.kind # "json"

\* configuration files found by initialize: none, one that is not JSON, a
\* JSON object that lacks a flag, and complete ones
ConfigFiles ==
    {UnreadableFile("missing"), UnreadableFile("invalidJSON")}
        \cup {JSONFile([name \in FeatureFlagName \ {FlagNameList[1]} |->
                           [enabled |-> TRUE, defaultValue |-> TRUE]])}
        \cup {JSONFile([name \in FeatureFlagName |->
                           [enabled |-> name # FlagNameList[1], defaultValue |-> TRUE]]),
              JSONFile(DEFAULT_FEATURE_FLAGS)}

\* updates of updateFlags: booleans for some names, a name outside the enum
\* among them
UpdateInputs ==
    UNION {[names -> BOOLEAN] : names \in SUBSET (FeatureFlagName \cup {"unknownFlag"})}

\* getInstance: the constructor's this.flags = { ...DEFAULT_FEATURE_FLAGS }
\* is a new object holding the flag objects of DEFAULT_FEATURE_FLAGS
\* themselves (shared); defaults is what those objects hold now
NewFlagManager(file) ==
    [defaults |-> DEFAULT_FEATURE_FLAGS, flags |-> DEFAULT_FEATURE_FLAGS, shared |-> TRUE,
     file |-> file, op |-> "getInstance", fellBack |-> FALSE, threw |-> ""]

\* no FeatureFlagManager has been made
FlagsIdle == NewFlagManager(UnreadableFile("missing"))

\* no checkpoint-driven stage function has been called; noEmbedding holds the
\* ids of the enriched notes on disk whose embedding is missing or empty
StageIdle ==
    [pc |-> "idle", fn |-> "", runs |-> 0, visited |-> {}, iterations |-> 0,
     skippedNotes |-> 0, noEmbedding |-> {}, thrown |-> ""]

----------------------------------------------------------------------------
(* Specification of the tracker driven by a sequential caller *)

Init ==
    /\ metadata = Null
    /\ \E c \in {Absent} \cup PreexistingDocs :
          files = [p \in Paths |-> IF p = FULL_PATH THEN c ELSE Absent]
    /\ lastCall = NoCall
    /\ lastResult = NoResult
    /\ calls = 0
    /\ before = Null
    /\ pc = "idle"
    /\ args = NoArgs
    /\ i = 0
    /\ enrich = <<>>
    /\ saves = <<>>
    /\ records = <<>>
    /\ errors = <<>>
    /\ processedCount = 0
    /\ caught = ""
    /\ pending = {}
    /\ attempts = <<>>
    /\ results = <<>>
    /\ runs = 0
    /\ crashes = 0
    /\ lost = {}
    /\ ioFailed = FALSE
    /\ ServiceInit(<<>>)
    /\ index = IndexIdle
    /\ flagManager = FlagsIdle
    /\ stageRun = StageIdle

Next ==
    \/ newCheckpointManager
    \/ \E n \in TotalNotesInputs, dirOk \in BOOLEAN : initialize(n, dirOk)
    \/ \E stage \in StageInputs : startStage(stage)
    \/ \E stage \in StageInputs, noteId \in NoteIdInputs, success \in BOOLEAN :
          updateNoteProgress(stage, noteId, success)
    \/ \E stage \in StageInputs : completeStage(stage)
    \/ \E stage \in StageInputs, error \in ErrorInputs : failStage(stage, error)
    \/ \E stage \in StageInputs : getNextNoteForStageCall(stage)
    \/ \E stage \in StageInputs : getStageProgressPercentageCall(stage)

Spec == Init /\ [][Next]_vars

----------------------------------------------------------------------------
(* writeFile calls in flight.  writeFile(path, ...) opens the file with     *)
(* flag 'w' (which truncates it) and then writes the content; a call with  *)
(* an invalid path is a promise that is already rejected.                  *)

Cont(kind, k) == [kind |-> kind, k |-> k]

Entry(w, cont) ==
    [target |-> w.target, content |-> w.content, cont |-> cont,
     phase |-> IF w.threw THEN "rejecting" ELSE "opening"]

\* entry e can settle now with outcome ok
Completes(e, ok) ==
    /\ e \in pending
    /\ \/ e.phase = "rejecting" /\ ~ok
       \/ e.phase = "writing"

FilesAfter(e, ok) ==
    IF e.phase = "writing" /\ ok THEN [files EXCEPT ![e.target] = e.content] ELSE files

WriteOpen(e) ==
    /\ e \in pending
    /\ e.phase = "opening"
    /\ files' = [files EXCEPT ![e.target] = Truncated]
    /\ pending' = (pending \ {e}) \cup {[e EXCEPT !.phase = "writing"]}
    /\ UNCHANGED <<metadata, callerVars, pc, args, i, enrich, saves, records, errors,
                   processedCount, caught, attempts, results, runs, crashes, lost, ioFailed>>

----------------------------------------------------------------------------
(* EnrichmentService.processNotes(notes, batchSize, parallelLimit),         *)
(* enrichment.ts 93-204                                                    *)

\* config.PROCESSING_CONFIG.PARALLEL_LIMIT, the argument of pLimit in the constructor
PARALLEL_LIMIT == 3

MaxRuns == 2

MaxCrashes == 1

\* notes as getAllRawNotes returns them: ids "0", "1", ...
NotesInputs == {[k \in 1..n |-> toString(k - 1)] : n \in 0..MaxNotes}

BatchSizeInputs == {1, 2}

ParallelLimitInputs == {1, 3}

Min(a, b) == IF a < b THEN a ELSE b

\* notes.slice(i, i + batchSize)
batch == SubSeq(args.notes, i + 1, Min(i + args.batchSize, Len(args.notes)))

Running == {k \in DOMAIN enrich : enrich[k] = "running"}

\* enrichedNotes.filter(note => note !== null), as batch positions
successfulNotes == {k \in DOMAIN enrich : enrich[k] = "ok"}

\* batch.filter((note, idx) => !successfulNotes[idx]): idx indexes the
\* filtered array, so the test holds for the positions past its length
failedOfBatch == {k \in 1..Len(batch) : k > Cardinality(successfulNotes)}

EnrichedNote(noteId) == [id |-> noteId, enriched |-> TRUE]

processNotes(notes, batchSize, parallelLimit, dirOk) ==
    /\ pc \in {"idle", "returned", "threw"}
    /\ pending = {}
    /\ runs < MaxRuns
    /\ runs' = runs + 1
    /\ args' = [notes |-> notes, batchSize |-> batchSize, parallelLimit |-> parallelLimit]
    /\ i' = 0
    /\ errors' = <<>>
    /\ processedCount' = 0
    /\ enrich' = <<>>
    /\ saves' = <<>>
    /\ records' = <<>>
    /\ attempts' = [k \in 1..Len(notes) |-> 0]
    /\ results' = [k \in 1..Len(notes) |-> "none"]
    /\ IF Len(notes) = 0
       THEN pc' = "catch" /\ caught' = "No notes provided for processing"
       ELSE IF ~dirOk
       THEN pc' = "catch" /\ caught' = "ensureDirectory"
       ELSE pc' = "initialize" /\ caught' = ""
    /\ ioFailed' = FALSE
    /\ UNCHANGED <<metadata, files, callerVars, pending, crashes, lost>>

\* line 112: await this.checkpointManager.initialize(notes.length)
RunInitialize(dirOk) ==
    /\ pc = "initialize"
    /\ LET r == initializeEffect(files, metadata, Len(args.notes), dirOk) IN
       /\ metadata' = r.md
       /\ IF r.threw # ""
          THEN pc' = "catch" /\ caught' = r.threw /\ UNCHANGED pending
          ELSE IF r.saves
          THEN /\ pending' = pending \cup {Entry(saveMetadata(r.md), Cont("main", 0))}
               /\ pc' = "awaitInitialize"
               /\ UNCHANGED caught
          ELSE pc' = "startStage" /\ UNCHANGED <<pending, caught>>
    /\ UNCHANGED <<files, callerVars, args, i, enrich, saves, records, errors,
                   processedCount, attempts, results, runs, crashes, lost, ioFailed>>

\* line 113: await this.checkpointManager.startStage(ENRICHMENT)
RunStartStage ==
    /\ pc = "startStage"
    /\ IF metadata.stages[ENRICHMENT].status = IN_PROGRESS
       THEN pc' = "batch" /\ UNCHANGED <<metadata, pending>>
       ELSE LET md == StartStageDoc(metadata, ENRICHMENT, Now) IN
            /\ metadata' = md
            /\ pending' = pending \cup {Entry(saveMetadata(md), Cont("main", 0))}
            /\ pc' = "awaitStartStage"
    /\ UNCHANGED <<files, callerVars, args, i, enrich, saves, records, errors,
                   processedCount, caught, attempts, results, runs, crashes, lost, ioFailed>>

\* line 116: the loop test; lines 127-139: every note of the batch is handed
\* to this.limit; line 178: after the loop, completeStage(ENRICHMENT)
BatchLoop ==
    /\ pc = "batch"
    /\ IF i < Len(args.notes)
       THEN /\ enrich' = [k \in 1..Len(batch) |-> "queued"]
            /\ saves' = <<>>
            /\ records' = <<>>
            /\ pc' = "enrich"
            /\ UNCHANGED <<metadata, pending>>
       ELSE LET md == CompleteStageDoc(metadata, ENRICHMENT) IN
            /\ metadata' = md
            /\ pending' = pending \cup {Entry(saveMetadata(md), Cont("main", 0))}
            /\ pc' = "awaitCompleteStage"
            /\ UNCHANGED <<enrich, saves, records>>
    /\ UNCHANGED <<files, callerVars, args, i, errors, processedCount, caught,
                   attempts, results, runs, crashes, lost, ioFailed>>

\* p-limit starts the oldest queued call while fewer than its concurrency are active
StartEnrich(k) ==
    /\ pc = "enrich"
    /\ k \in DOMAIN enrich
    /\ enrich[k] = "queued"
    /\ \A j \in 1..(k - 1) : enrich[j] # "queued"
    /\ Cardinality(Running) < PARALLEL_LIMIT
    /\ enrich' = [enrich EXCEPT ![k] = "running"]
    /\ attempts' = [attempts EXCEPT ![i + k] = @ + 1]
    /\ UNCHANGED <<metadata, files, callerVars, pc, args, i, saves, records, errors,
                   processedCount, caught, pending, results, runs, crashes, lost, ioFailed>>

\* enrichNote(note) settles; lines 130-137 turn a rejection into null
FinishEnrich(k, ok) ==
    /\ pc = "enrich"
    /\ k \in DOMAIN enrich
    /\ enrich[k] = "running"
    /\ enrich' = [enrich EXCEPT ![k] = IF ok THEN "ok" ELSE "failed"]
    /\ results' = [results EXCEPT ![i + k] = IF ok THEN "ok" ELSE "failed"]
    /\ errors' = IF ok THEN errors
                 ELSE Append(errors, [noteId |-> batch[k], error |-> "enrichNote"])
    /\ UNCHANGED <<metadata, files, callerVars, pc, args, i, saves, records,
                   processedCount, caught, pending, attempts, runs, crashes, lost, ioFailed>>

\* lines 143-158: the save callbacks start, each with its writeJSON call
AfterEnrich ==
    /\ pc = "enrich"
    /\ \A k \in DOMAIN enrich : enrich[k] \in {"ok", "failed"}
    /\ saves' = [k \in successfulNotes |-> "writing"]
    /\ pending' = pending \cup
          {Entry(writeJSON(EnrichedNote(batch[k]), Path(EnrichedPath(batch[k]))),
                 Cont("saveFile", k)) : k \in successfulNotes}
    /\ pc' = "save"
    /\ UNCHANGED <<metadata, files, callerVars, args, i, enrich, records, errors,
                   processedCount, caught, attempts, results, runs, crashes, lost, ioFailed>>

\* line 151 settles; on success line 152 calls updateNoteProgress(.., true)
SaveFileDone(e, ok) ==
    /\ Completes(e, ok)
    /\ e.cont.kind = "saveFile"
    /\ files' = FilesAfter(e, ok)
    /\ ioFailed' = (ioFailed \/ (e.phase = "writing" /\ ~ok))
    /\ IF ok
       THEN LET md == UpdateNoteDoc(metadata, ENRICHMENT, batch[e.cont.k], TRUE) IN
            /\ metadata' = md
            /\ pending' = (pending \ {e}) \cup
                  {Entry(saveMetadata(md), Cont("saveUpdate", e.cont.k))}
            /\ saves' = [saves EXCEPT ![e.cont.k] = "updating"]
       ELSE /\ saves' = [saves EXCEPT ![e.cont.k] = "rejected"]
            /\ pending' = pending \ {e}
            /\ UNCHANGED metadata
    /\ UNCHANGED <<callerVars, pc, args, i, enrich, records, errors, processedCount,
                   caught, attempts, results, runs, crashes, lost>>

\* the saveMetadata of an updateNoteProgress call settles
UpdateDone(e, ok) ==
    /\ Completes(e, ok)
    /\ e.cont.kind \in {"saveUpdate", "record"}
    /\ files' = FilesAfter(e, ok)
    /\ ioFailed' = (ioFailed \/ (e.phase = "writing" /\ ~ok))
    /\ pending' = pending \ {e}
    /\ IF e.cont.kind = "saveUpdate"
       THEN /\ saves' = [saves EXCEPT ![e.cont.k] = IF ok THEN "resolved" ELSE "rejected"]
            /\ UNCHANGED records
       ELSE /\ records' = [records EXCEPT ![e.cont.k] = IF ok THEN "resolved" ELSE "rejected"]
            /\ UNCHANGED saves
    /\ UNCHANGED <<metadata, callerVars, pc, args, i, enrich, errors, processedCount,
                   caught, attempts, results, runs, crashes, lost>>

\* Promise.all of lines 148-158: rejects with the first rejection, resolves
\* when every callback has resolved
SaveAllSettled ==
    /\ pc = "save"
    /\ IF \E k \in DOMAIN saves : saves[k] = "rejected"
       THEN pc' = "catch" /\ caught' = "JSONFileError"
       ELSE /\ \A k \in DOMAIN saves : saves[k] = "resolved"
            /\ pc' = "record"
            /\ UNCHANGED caught
    /\ UNCHANGED <<metadata, files, callerVars, args, i, enrich, saves, records, errors,
                   processedCount, pending, attempts, results, runs, crashes, lost, ioFailed>>

RECURSIVE RecordFold(_, _, _)
\* the metadata after the updateNoteProgress(.., false) calls for positions from..to
RecordFold(md, from, to) ==
    IF from > to THEN md
    ELSE RecordFold(UpdateNoteDoc(md, ENRICHMENT, batch[from], FALSE), from + 1, to)

\* lines 161-167: map calls updateNoteProgress for each filtered note in turn;
\* each call mutates the metadata and snapshots it before the next call runs
RecordFailures ==
    /\ pc = "record"
    /\ LET first == Cardinality(successfulNotes) + 1 IN
       /\ metadata' = RecordFold(metadata, first, Len(batch))
       /\ pending' = pending \cup
             {Entry(saveMetadata(RecordFold(metadata, first, k)), Cont("record", k)) :
                 k \in failedOfBatch}
    /\ records' = [k \in failedOfBatch |-> "updating"]
    /\ pc' = "awaitRecord"
    /\ UNCHANGED <<files, callerVars, args, i, enrich, saves, errors, processedCount,
                   caught, attempts, results, runs, crashes, lost, ioFailed>>

\* Promise.all of lines 161-167 settles; on success lines 169-175 end the
\* iteration
RecordAllSettled ==
    /\ pc = "awaitRecord"
    /\ IF \E k \in DOMAIN records : records[k] = "rejected"
       THEN /\ pc' = "catch"
            /\ caught' = "JSONFileError"
            /\ UNCHANGED <<processedCount, i>>
       ELSE /\ \A k \in DOMAIN records : records[k] = "resolved"
            /\ processedCount' = processedCount + Cardinality(successfulNotes)
            /\ i' = i + args.batchSize
            /\ pc' = "batch"
            /\ UNCHANGED caught
    /\ UNCHANGED <<metadata, files, callerVars, args, enrich, saves, records, errors,
                   pending, attempts, results, runs, crashes, lost, ioFailed>>

\* lines 196-198: the catch block calls failStage(ENRICHMENT, errorMessage)
RunCatch ==
    /\ pc = "catch"
    /\ IF metadata = Null
       THEN /\ pc' = "threw"
            /\ caught' = NotInitialized
            /\ UNCHANGED <<metadata, pending>>
       ELSE LET md == FailStageDoc(metadata, ENRICHMENT, caught) IN
            /\ metadata' = md
            /\ pending' = pending \cup {Entry(saveMetadata(md), Cont("main", 0))}
            /\ pc' = "awaitFailStage"
            /\ UNCHANGED caught
    /\ UNCHANGED <<files, callerVars, args, i, enrich, saves, records, errors,
                   processedCount, attempts, results, runs, crashes, lost, ioFailed>>

\* line 202: new Error(`Enrichment pipeline failed: ${errorMessage}`)
PipelineFailed(errorMessage) == "Enrichment pipeline failed: " \o errorMessage

\* the saveMetadata awaited by the main flow settles
MainResume(e, ok) ==
    /\ Completes(e, ok)
    /\ e.cont.kind = "main"
    /\ files' = FilesAfter(e, ok)
    /\ ioFailed' = (ioFailed \/ (e.phase = "writing" /\ ~ok))
    /\ pending' = pending \ {e}
    /\ IF pc = "awaitFailStage"
       THEN \* line 202 throws, or failStage's own rejection leaves the catch block
            pc' = "threw" /\ caught' = (IF ok THEN PipelineFailed(caught) ELSE "JSONFileError")
       ELSE IF ~ok
       THEN pc' = "catch" /\ caught' =
               (IF pc = "awaitInitialize" THEN "Failed to initialize checkpoint"
                ELSE "JSONFileError")
       ELSE /\ pc' = CASE pc = "awaitInitialize" -> "startStage"
                       [] pc = "awaitStartStage" -> "batch"
                       [] OTHER -> "returned"
            /\ UNCHANGED caught
    /\ UNCHANGED <<metadata, callerVars, args, i, enrich, saves, records, errors,
                   processedCount, attempts, results, runs, crashes, lost>>

\* the process dies; the files stay as they are
Crash ==
    /\ crashes < MaxCrashes
    /\ pc # "idle"
    /\ crashes' = crashes + 1
    /\ lost' = pending
    /\ metadata' = Null
    /\ pc' = "idle"
    /\ pending' = {}
    /\ enrich' = <<>>
    /\ saves' = <<>>
    /\ records' = <<>>
    /\ UNCHANGED <<files, callerVars, args, i, errors, processedCount, caught,
                   attempts, results, runs, ioFailed>>

NextRun ==
    \/ \E notes \in NotesInputs, batchSize \in BatchSizeInputs,
          parallelLimit \in ParallelLimitInputs, dirOk \in BOOLEAN :
          processNotes(notes, batchSize, parallelLimit, dirOk)
    \/ \E dirOk \in BOOLEAN : RunInitialize(dirOk)
    \/ RunStartStage
    \/ BatchLoop
    \/ \E k \in 1..MaxNotes : StartEnrich(k)
    \/ \E k \in 1..MaxNotes, ok \in BOOLEAN : FinishEnrich(k, ok)
    \/ AfterEnrich
    \/ \E e \in pending : WriteOpen(e)
    \/ \E e \in pending, ok \in BOOLEAN : SaveFileDone(e, ok)
    \/ \E e \in pending, ok \in BOOLEAN : UpdateDone(e, ok)
    \/ SaveAllSettled
    \/ RecordFailures
    \/ RecordAllSettled
    \/ RunCatch
    \/ \E e \in pending, ok \in BOOLEAN : MainResume(e, ok)
    \/ Crash

SpecRun == Init /\ [][NextRun]_vars

----------------------------------------------------------------------------
(* OpenAIService: handleRateLimit and retryWithExponentialBackoff *)

RECURSIVE Pow(_, _)
\* base ** exponent
Pow(base, exponent) == IF exponent = 0 THEN 1 ELSE base * Pow(base, exponent - 1)

Delay_uncapped(retryCount) == INITIAL_RETRY_DELAY * Pow(BACKOFF_FACTOR, retryCount)

\* lines 106-109: the delay slept before the retry that follows failure number retryCount
Delay(retryCount) ==
    Min(INITIAL_RETRY_DELAY * Pow(BACKOFF_FACTOR, retryCount), MAX_RETRY_DELAY)

tokenCountOf_shared(s, type) == s.tokens[COMPLETIONS]

\* line 63: the counter of the call's own type
tokenCountOf(s, type) == s.tokens[type]

\* line 62
lastTimeOf(s, type) == s.lastTime[type]

\* lines 66-72: the counter is cleared when the last request is a minute old
ResetIfMinutePassed(s, type, now) ==
    IF now - lastTimeOf(s, type) >= MINUTE
    THEN [s EXCEPT !.tokens[type] = 0]
    ELSE s

\* line 75, on the values read at lines 62-63
MustWait(s, type, tokens) == tokenCountOf(s, type) + tokens > TOKENS_PER_MINUTE(type)

\* lines 76-77: setTimeout takes a negative waitTime as no delay
waitTime(s, type, now) ==
    LET ms == MINUTE - (now - lastTimeOf(s, type)) IN IF ms < 0 THEN 0 ELSE ms

\* lines 78-82: after the sleep the counter is cleared
ClearAfterSleep(s, type) == [s EXCEPT !.tokens[type] = 0]

\* lines 86-92: `now` is the time read at line 60
CountTokens(s, type, tokens, now) ==
    [s EXCEPT !.tokens[type] = @ + tokens, !.lastTime[type] = now]

\* operation() is invoked: one request leaves for the API
Invoke(o) ==
    /\ issued' = Append(issued, [op |-> o, type |-> ops'[o].type,
                                  tokens |-> ops'[o].tokens, time |-> clock])

Finished(o) == ops[o].phase \in {"resolved", "rejected"}

Made(o) == ops[o].phase # "new"

\* calls are numbered in the order they are made
NextToMake(o) == ~Made(o) /\ (IF o = 1 THEN TRUE ELSE Made(o - 1))

\* generateSummaryAndTags / generateBatchEmbeddings up to the first suspension:
\* handleRateLimit, then the first invocation of the operation
generate(o, type, tokens) ==
    /\ NextToMake(o)
    /\ LET entered == [ops[o] EXCEPT !.type = type, !.tokens = tokens, !.now = clock,
                                       !.limited = 1]
            cleared == ResetIfMinutePassed(svc, type, clock)
       IN  IF MustWait(svc, type, tokens)
           THEN /\ svc' = cleared
                /\ ops' = [ops EXCEPT ![o] =
                              [entered EXCEPT !.phase = "rateSleep",
                                              !.wakeAt = clock + waitTime(svc, type, clock)]]
                /\ UNCHANGED issued
           ELSE /\ svc' = CountTokens(cleared, type, tokens, clock)
                /\ ops' = [ops EXCEPT ![o] =
                              [entered EXCEPT !.phase = "inFlight", !.invocations = 1]]
                /\ Invoke(o)
    /\ UNCHANGED <<clock, checkpointVars>>

\* the sleep of line 77 is over: lines 78-92, then the first invocation
RateWake(o) ==
    /\ ops[o].phase = "rateSleep"
    /\ clock >= ops[o].wakeAt
    /\ svc' = CountTokens(ClearAfterSleep(svc, ops[o].type), ops[o].type,
                           ops[o].tokens, ops[o].now)
    /\ ops' = [ops EXCEPT ![o].phase = "inFlight", ![o].invocations = 1]
    /\ Invoke(o)
    /\ UNCHANGED <<clock, checkpointVars>>

\* line 100: the operation resolves and its value is returned
OperationResolves(o) ==
    /\ ops[o].phase = "inFlight"
    /\ ops' = [ops EXCEPT ![o].phase = "resolved"]
    /\ UNCHANGED <<svc, clock, issued, checkpointVars>>

\* lines 101-111: the operation rejects; rethrow, or sleep before the retry
OperationRejects(o) ==
    /\ ops[o].phase = "inFlight"
    /\ IF ops[o].retryCount >= svc.maxRetries
       THEN ops' = [ops EXCEPT ![o].phase = "rejected"]
       ELSE ops' = [ops EXCEPT ![o].phase = "backoff",
                               ![o].delays = Append(@, Delay(ops[o].retryCount))]
    /\ UNCHANGED <<svc, clock, issued, checkpointVars>>

\* line 112: the sleep is over, the operation is invoked again
BackoffWake(o) ==
    /\ ops[o].phase = "backoff"
    /\ ops' = [ops EXCEPT ![o].phase = "inFlight", ![o].retryCount = @ + 1,
                           ![o].invocations = @ + 1]
    /\ Invoke(o)
    /\ UNCHANGED <<svc, clock, checkpointVars>>

\* time passes, half a minute at a time
Tick ==
    /\ clock < StartClock + MaxTicks * (MINUTE \div 2)
    /\ clock' = clock + (MINUTE \div 2)
    /\ UNCHANGED <<svc, ops, issued, checkpointVars>>

\* no tracker call and no run of processNotes has been made
CallersIdle ==
    /\ lastCall = NoCall
    /\ lastResult = NoResult
    /\ calls = 0
    /\ before = Null
    /\ pc = "idle"
    /\ args = NoArgs
    /\ i = 0
    /\ enrich = <<>>
    /\ saves = <<>>
    /\ records = <<>>
    /\ errors = <<>>
    /\ processedCount = 0
    /\ caught = ""
    /\ pending = {}
    /\ attempts = <<>>
    /\ results = <<>>
    /\ runs = 0
    /\ crashes = 0
    /\ lost = {}
    /\ ioFailed = FALSE

\* the tracker is not used by the service
TrackerIdle ==
    /\ metadata = Null
    /\ files = [p \in Paths |-> Absent]
    /\ CallersIdle
    /\ index = IndexIdle
    /\ flagManager = FlagsIdle
    /\ stageRun = StageIdle

\* new OpenAIService({maxRetries})
InitService ==
    /\ TrackerIdle
    /\ \E maxRetries \in MaxRetriesInputs : ServiceInit(maxRetries)

\* two calls of the smaller size, one after the other; operations may fail
NextRetry ==
    \/ \E o \in 1..2, type \in CallTypes :
           /\ \A other \in OpIds : ~Made(other) \/ Finished(other)
           /\ generate(o, type, 50000)
    \/ \E o \in OpIds : RateWake(o)
    \/ \E o \in OpIds : OperationResolves(o)
    \/ \E o \in OpIds : OperationRejects(o)
    \/ \E o \in OpIds : BackoffWake(o)
    \/ Tick

SpecRetry == InitService /\ [][NextRetry]_vars

\* the default service; calls overlap; every operation succeeds
InitLimiter == TrackerIdle /\ ServiceInit(<<>>)

NextLimiter ==
    \/ \E o \in OpIds, type \in CallTypes, tokens \in TokenInputs : generate(o, type, tokens)
    \/ \E o \in OpIds : RateWake(o)
    \/ \E o \in OpIds : OperationResolves(o)
    \/ Tick

SpecLimiter == InitLimiter /\ [][NextLimiter]_vars

----------------------------------------------------------------------------
(* NotesService.indexNotes(testMode), NotesService.ts 161-343, on the       *)
(* CheckpointManager that index.ts shares between its tool handlers        *)

CHUNK_SIZE == 100

\* Number.parseInt of the decimal string of a note index
parseInt(str) == CHOOSE n \in 0..(MaxNotes + 2) : toString(n) = str

\* line 190: testMode ? 1 : Math.ceil(allNotes.length / CHUNK_SIZE)
maxIterations ==
    IF index.testMode THEN 1 ELSE (index.allNotes + CHUNK_SIZE - 1) \div CHUNK_SIZE

\* line 193: the loop test
MoreChunks == index.i < index.allNotes /\ index.processedChunks < maxIterations

\* line 197: allNotes.slice(i, i + CHUNK_SIZE), as note indices
currentChunk == index.i .. (Min(index.i + CHUNK_SIZE, index.allNotes) - 1)

\* line 180: a non-empty string is truthy, "0" included
StartIndex(nextNoteId) ==
    IF nextNoteId = NullNote THEN 0 ELSE parseInt(nextNoteId.value) + 1

\* lines 332-341: the outer catch block, run to its end on metadata md
IndexCatch(md, fs, errorMessage) ==
    IF md = Null
    THEN [md |-> md, fs |-> fs, thrown |-> NotInitialized]
    ELSE LET failed == FailStageDoc(md, RAW_EXPORT, errorMessage)
             w == saveMetadata(failed)
         IN [md |-> failed, fs |-> WriteDone(fs, w),
             thrown |-> IF w.threw THEN "JSONFileError"
                        ELSE "Failed to index notes: " \o errorMessage]

\* the index.ts handler gives the error to its caller
IndexThrows(c) ==
    /\ metadata' = c.md
    /\ files' = c.fs
    /\ index' = [index EXCEPT !.pc = "threw", !.thrown = c.thrown]

\* checkpoint documents found on disk by indexNotes: RAW_EXPORT begun by an
\* earlier run that was interrupted or failed
IndexDocs ==
    {[NewMetadata(n) EXCEPT !.stages[RAW_EXPORT] =
          [status |-> st, processedNoteIds |-> p, failedNoteIds |-> <<>>,
           startTime |-> Time(0),
           error |-> IF st = FAILED THEN "Test error" ELSE Undefined]] :
        n \in {0, MaxNotes}, st \in {IN_PROGRESS, FAILED}, p \in {<<>>, <<"0">>}}

\* lines 161-169: the call up to the end of initialize(allNotes.length), with
\* allNotes still the empty array of line 165; initialize is outside the try
indexNotes(testMode, dirOk) ==
    /\ index.pc \in {"idle", "returned", "threw"}
    /\ index.runs < MaxRuns
    /\ LET r == initializeEffect(files, metadata, 0, dirOk)
           w == saveMetadata(r.md)
           rejected == r.threw # "" \/ (r.saves /\ w.threw)
       IN /\ metadata' = r.md
          /\ files' = IF r.saves THEN WriteDone(files, w) ELSE files
          /\ index' = [IndexIdle EXCEPT
                          !.runs = index.runs + 1,
                          !.testMode = testMode,
                          !.pc = IF rejected THEN "threw" ELSE "getNotes",
                          !.thrown = IF r.threw # "" THEN r.threw
                                     ELSE IF rejected THEN "Failed to initialize checkpoint"
                                     ELSE ""]
    /\ UNCHANGED restVars

\* lines 172-180: ensureDirectory, getNotes resolving with n titles,
\* startStage(RAW_EXPORT), getNextNoteForStage and startIndex
indexGetNotes(n, rawDirOk, getNotesOk) ==
    /\ index.pc = "getNotes"
    /\ IF ~rawDirOk
       THEN IndexThrows(IndexCatch(metadata, files, "ensureDirectory"))
       ELSE IF ~getNotesOk
       THEN IndexThrows(IndexCatch(metadata, files, "getNotes"))
       ELSE IF metadata = Null
       THEN IndexThrows(IndexCatch(metadata, files, NotInitialized))
       ELSE LET started == metadata.stages[RAW_EXPORT].status = IN_PROGRESS
                md == IF started THEN metadata ELSE StartStageDoc(metadata, RAW_EXPORT, Now)
                w == saveMetadata(md)
            IN IF ~started /\ w.threw
               THEN IndexThrows(IndexCatch(md, files, "JSONFileError"))
               ELSE LET nextNoteId == getNextNoteForStage(md, RAW_EXPORT) IN
                    /\ metadata' = md
                    /\ files' = IF started THEN files ELSE WriteDone(files, w)
                    /\ index' = [index EXCEPT
                          !.pc = "loop",
                          !.allNotes = n,
                          !.next = nextNoteId,
                          !.startIndex = StartIndex(nextNoteId),
                          !.i = StartIndex(nextNoteId),
                          !.unsettled =
                              {k \in 0..(n - 1) :
                                  /\ ~Includes(md.stages[RAW_EXPORT].processedNoteIds, toString(k))
                                  /\ ~Includes(md.stages[RAW_EXPORT].failedNoteIds, toString(k))}]
    /\ UNCHANGED restVars

RECURSIVE UpdateWritten(_, _, _, _)
\* lines 262-282: updateNoteProgress(RAW_EXPORT, id, true) for every note of
\* the chunk whose file was written
UpdateWritten(md, from, to, written) ==
    IF from > to THEN md
    ELSE UpdateWritten(IF from \in written
                       THEN UpdateNoteDoc(md, RAW_EXPORT, toString(from), TRUE)
                       ELSE md,
                       from + 1, to, written)

\* lines 196-309: one chunk.  Either getNoteDetailsByTitle rejects for a note
\* and the chunk is given up, or the notes in `written` get their file and
\* their updateNoteProgress, whose rejection is caught per note (272-280)
indexChunk(detailsOk, written) ==
    /\ index.pc = "loop"
    /\ MoreChunks
    /\ written \subseteq currentChunk
    /\ IF detailsOk
       THEN LET md == UpdateWritten(metadata, index.i,
                                     Min(index.i + CHUNK_SIZE, index.allNotes) - 1, written)
                w == saveMetadata(md)
            IN /\ metadata' = md
               /\ files' = IF written = {} THEN files ELSE WriteDone(files, w)
       ELSE /\ written = {}
            /\ UNCHANGED <<metadata, files>>
    /\ index' = [index EXCEPT !.i = @ + CHUNK_SIZE,
                              !.processedChunks = @ + 1,
                              !.attempted = @ \cup currentChunk]
    /\ UNCHANGED restVars

\* line 312: completeStage(RAW_EXPORT) up to its await of saveMetadata
indexCompleteStage ==
    /\ index.pc = "loop"
    /\ ~MoreChunks
    /\ IF metadata = Null
       THEN IndexThrows(IndexCatch(metadata, files, NotInitialized))
       ELSE /\ metadata' = CompleteStageDoc(metadata, RAW_EXPORT)
            /\ index' = [index EXCEPT !.pc = "awaitCompleteStage"]
            /\ UNCHANGED files
    /\ UNCHANGED restVars

\* the save of completeStage settles: lines 314-331, or the outer catch
indexCompleteStageSettles ==
    /\ index.pc = "awaitCompleteStage"
    /\ LET w == saveMetadata(metadata) IN
       IF w.threw
       THEN IndexThrows(IndexCatch(metadata, files, "JSONFileError"))
       ELSE /\ files' = WriteDone(files, w)
            /\ index' = [index EXCEPT !.pc = "returned"]
            /\ UNCHANGED metadata
    /\ UNCHANGED restVars

\* index.ts 178-200: the enrich-notes handler runs on the same
\* CheckpointManager while indexNotes awaits getNotes.  processNotes(n notes)
\* calls initialize(n), which rejects, and its catch block calls
\* failStage(ENRICHMENT, message).
enrichNotes(n, dirOk) ==
    /\ index.pc = "getNotes"
    /\ index.runs < MaxRuns
    /\ LET r == initializeEffect(files, metadata, n, dirOk)
           w == saveMetadata(r.md)
           errorMessage == IF r.threw # "" THEN r.threw ELSE "Failed to initialize checkpoint"
       IN /\ r.threw # "" \/ (r.saves /\ w.threw)
          /\ metadata' = (IF r.md = Null THEN r.md
                          ELSE FailStageDoc(r.md, ENRICHMENT, errorMessage))
          /\ files' = (IF r.md = Null THEN files
                       ELSE WriteDone(IF r.saves THEN WriteDone(files, w) ELSE files,
                                      saveMetadata(FailStageDoc(r.md, ENRICHMENT, errorMessage))))
    /\ index' = [index EXCEPT !.runs = @ + 1]
    /\ UNCHANGED restVars

\* a new process; the checkpoint file is missing or left by an earlier one
InitIndex ==
    /\ metadata = Null
    /\ \E c \in {Absent} \cup IndexDocs :
          files = [p \in Paths |-> IF p = FULL_PATH THEN c ELSE Absent]
    /\ CallersIdle
    /\ ServiceInit(<<>>)
    /\ index = IndexIdle
    /\ flagManager = FlagsIdle
    /\ stageRun = StageIdle

NextIndex ==
    \/ \E testMode \in BOOLEAN, dirOk \in BOOLEAN : indexNotes(testMode, dirOk)
    \/ \E n \in 0..MaxNotes, rawDirOk \in BOOLEAN, getNotesOk \in BOOLEAN :
          indexGetNotes(n, rawDirOk, getNotesOk)
    \/ \E detailsOk \in BOOLEAN, written \in SUBSET (0..(MaxNotes - 1)) :
          indexChunk(detailsOk, written)
    \/ indexCompleteStage
    \/ indexCompleteStageSettles
    \/ \E n \in 1..MaxNotes, dirOk \in BOOLEAN : enrichNotes(n, dirOk)

SpecIndex == InitIndex /\ [][NextIndex]_vars

----------------------------------------------------------------------------
(* FeatureFlagManager, services/featureFlagManager.ts 16-133                *)

\* everything but the FeatureFlagManager
flagRestVars == <<metadata, files, lastCall, lastResult, calls, before,
                  pc, args, i, enrich, saves, records, errors, processedCount, caught,
                  pending, attempts, results, runs, crashes, lost, ioFailed, serviceVars,
                  index, stageRun>>

isEnabled(fm, flagName) == fm.flags[flagName].enabled

\* this.flags = { ...DEFAULT_FEATURE_FLAGS }: the flag objects are those of
\* DEFAULT_FEATURE_FLAGS as they are now, not copies of the literal
SpreadDefaults(fm) ==
    [fm EXCEPT !.flags = fm.defaults, !.shared = TRUE]

\* this.flags[name].enabled = enabled: an assignment to a shared flag object
\* is one to DEFAULT_FEATURE_FLAGS[name]
SetEnabled(fm, name, enabled) ==
    [fm EXCEPT !.flags[name].enabled = enabled,
               !.defaults[name].enabled = IF fm.shared THEN enabled ELSE @]

\* saveConfiguration: saveJsonFile(this.configPath, this.flags, true) writes
\* the document, or rejects and the rejection is thrown on
saveConfiguration(fm, op, writeOk) ==
    [fm EXCEPT !.file = IF writeOk THEN JSONFile(fm.flags) ELSE @,
               !.op = op,
               !.threw = IF writeOk THEN "" ELSE "Failed to save JSON file"]

\* initialize(): a valid document replaces this.flags; an invalid one, or a
\* rejected load, falls back to the defaults and saves them.  A save that
\* rejects in the try block is caught, and the catch block saves once more
FlagManagerInitialize(firstWriteOk, writeOk) ==
    LET fm == flagManager
        fallback == [SpreadDefaults(fm) EXCEPT !.fellBack = TRUE] IN
    /\ flagManager' =
           IF loadJsonFileThrows(fm.file)
           THEN saveConfiguration(fallback, "initialize", writeOk)
           ELSE IF isValidFeatureFlagsConfig(fm.file.doc)
                THEN [fm EXCEPT !.flags = fm.file.doc, !.shared = FALSE,
                                !.op = "initialize", !.fellBack = FALSE, !.threw = ""]
                ELSE IF firstWriteOk
                     THEN saveConfiguration(fallback, "initialize", TRUE)
                     ELSE saveConfiguration(fallback, "initialize", writeOk)
    /\ UNCHANGED flagRestVars

enableFlag(flagName, writeOk) ==
    /\ flagManager' = saveConfiguration(SetEnabled(flagManager, flagName, TRUE),
                                        "enableFlag", writeOk)
    /\ UNCHANGED flagRestVars

disableFlag(flagName, writeOk) ==
    /\ flagManager' = saveConfiguration(SetEnabled(flagManager, flagName, FALSE),
                                        "disableFlag", writeOk)
    /\ UNCHANGED flagRestVars

\* the for loop over Object.entries(updates), names outside the enum skipped
RECURSIVE ApplyUpdates(_, _, _)
ApplyUpdates(fm, updates, names) ==
    IF names = {} THEN fm
    ELSE LET name == CHOOSE n \in names : TRUE IN
         ApplyUpdates(IF isFeatureFlagName(name) THEN SetEnabled(fm, name, updates[name])
                                                 ELSE fm,
                      updates, names \ {name})

updateFlags(updates, writeOk) ==
    /\ flagManager' = saveConfiguration(ApplyUpdates(flagManager, updates, DOMAIN updates),
                                        "updateFlags", writeOk)
    /\ UNCHANGED flagRestVars

resetToDefaults(writeOk) ==
    /\ flagManager' = saveConfiguration(SpreadDefaults(flagManager), "resetToDefaults",
                                        writeOk)
    /\ UNCHANGED flagRestVars

\* the process starts with the module loaded and the singleton made
InitFlags ==
    /\ metadata = Null
    /\ files = [p \in Paths |-> Absent]
    /\ CallersIdle
    /\ ServiceInit(<<>>)
    /\ index = IndexIdle
    /\ stageRun = StageIdle
    /\ \E file \in ConfigFiles : flagManager = NewFlagManager(file)

NextFlags ==
    \/ \E firstWriteOk \in BOOLEAN, writeOk \in BOOLEAN :
          FlagManagerInitialize(firstWriteOk, writeOk)
    \/ \E flagName \in FeatureFlagName, writeOk \in BOOLEAN : enableFlag(flagName, writeOk)
    \/ \E flagName \in FeatureFlagName, writeOk \in BOOLEAN : disableFlag(flagName, writeOk)
    \/ \E updates \in UpdateInputs, writeOk \in BOOLEAN : updateFlags(updates, writeOk)
    \/ \E writeOk \in BOOLEAN : resetToDefaults(writeOk)

SpecFlags == InitFlags /\ [][NextFlags]_vars

----------------------------------------------------------------------------
(* The checkpoint-driven stage functions: loadNotesForClustering            *)
(* (clustering.ts 70-148), aggregateTags (tagAggregation.ts 117-233) and    *)
(* processNotes(totalNotes) (enrichment.ts 291-351)                         *)

\* calls of stage functions in one process
MaxStageRuns == 3

\* iterations that `continue` before the model stops following the loop
MaxSkipped == 3

\* everything but the CheckpointManager, the files and the stage function
stageRestVars == <<lastCall, lastResult, calls, before,
                   pc, args, i, enrich, saves, records, errors, processedCount, caught,
                   pending, attempts, results, runs, crashes, lost, ioFailed, serviceVars,
                   index, flagManager>>

\* await this.checkpointManager.startStage(stage)
StartStageEffect(md, fs, stage, now) ==
    IF md = Null
    THEN [md |-> md, fs |-> fs, threw |-> NotInitialized]
    ELSE IF md.stages[stage].status = IN_PROGRESS
    THEN [md |-> md, fs |-> fs, threw |-> ""]
    ELSE LET w == saveMetadata(StartStageDoc(md, stage, now)) IN
         [md |-> StartStageDoc(md, stage, now), fs |-> WriteDone(fs, w),
          threw |-> IF w.threw THEN "JSONFileError" ELSE ""]

\* await this.checkpointManager.updateNoteProgress(stage, noteId, success)
UpdateEffect(md, fs, stage, noteId, success) ==
    LET w == saveMetadata(UpdateNoteDoc(md, stage, noteId, success)) IN
    [md |-> UpdateNoteDoc(md, stage, noteId, success), fs |-> WriteDone(fs, w),
     threw |-> IF w.threw THEN "JSONFileError" ELSE ""]

\* await this.checkpointManager.completeStage(stage)
CompleteEffect(md, fs, stage) ==
    LET w == saveMetadata(CompleteStageDoc(md, stage)) IN
    [md |-> CompleteStageDoc(md, stage), fs |-> WriteDone(fs, w),
     threw |-> IF w.threw THEN "JSONFileError" ELSE ""]

\* the try/catch of one iteration: the body, then updateNoteProgress(true);
\* whatever is thrown there is caught and answered by
\* updateNoteProgress(false), whose own rejection leaves the loop
SettleNote(md, fs, stage, noteId, bodyOk) ==
    LET first == IF bodyOk THEN UpdateEffect(md, fs, stage, noteId, TRUE)
                 ELSE [md |-> md, fs |-> fs, threw |-> "body"] IN
    IF first.threw = "" THEN first
    ELSE UpdateEffect(first.md, first.fs, stage, noteId, FALSE)

\* the outer catch of aggregateTags and processNotes: failStage, then a new
\* Error with the prefixed message
StageCatch(md, fs, stage, prefix, errorMessage) ==
    IF md = Null
    THEN [md |-> md, fs |-> fs, threw |-> NotInitialized]
    ELSE LET w == saveMetadata(FailStageDoc(md, stage, errorMessage)) IN
         [md |-> FailStageDoc(md, stage, errorMessage), fs |-> WriteDone(fs, w),
          threw |-> IF w.threw THEN "JSONFileError" ELSE prefix \o errorMessage]

\* a stage function is called and runs up to its loop
StageBegins(fn, r) ==
    /\ metadata' = r.md
    /\ files' = r.fs
    /\ stageRun' = [stageRun EXCEPT !.pc = IF r.threw = "" THEN "loop" ELSE "idle",
                                    !.fn = fn, !.runs = @ + 1, !.visited = {},
                                    !.iterations = 0, !.skippedNotes = 0,
                                    !.thrown = r.threw]
    /\ UNCHANGED stageRestVars

\* an iteration that settled its note goes back to the head of the loop; a
\* rejection leaves the function
StageIterates(r, noteId, bodyOk) ==
    /\ metadata' = r.md
    /\ files' = r.fs
    /\ stageRun' = [stageRun EXCEPT !.pc = IF r.threw = "" THEN "loop" ELSE "idle",
                                    !.visited = IF bodyOk THEN @ \cup {noteId} ELSE @,
                                    !.iterations = @ + 1,
                                    !.thrown = r.threw]
    /\ UNCHANGED stageRestVars

\* the function returns (thrown = "") or rejects
StageEnds(r) ==
    /\ metadata' = r.md
    /\ files' = r.fs
    /\ stageRun' = [stageRun EXCEPT !.pc = "idle", !.thrown = r.threw]
    /\ UNCHANGED stageRestVars

\* the enriched note of noteId can be read
EnrichedReadable(fs, noteId) ==
    fileExists(fs, EnrichedPath(noteId)) /\ ~readJSONThrows(fs, EnrichedPath(noteId))

\* clustering.ts 76-78: startStage(CLUSTERING); the catch of lines 143-147
\* throws the error on
loadNotesForClustering ==
    /\ stageRun.pc = "idle"
    /\ stageRun.runs < MaxStageRuns
    /\ StageBegins("loadNotesForClustering",
                   StartStageEffect(metadata, files, CLUSTERING, Now))

\* clustering.ts 81-130: one turn of the while loop, and what follows the
\* loop when getNextNoteForStage returns null
loadNotesIteration ==
    /\ stageRun.pc = "loop"
    /\ stageRun.fn = "loadNotesForClustering"
    /\ LET nextNoteId == getNextNoteForStage(metadata, CLUSTERING) IN
       IF nextNoteId = NullNote
       THEN StageEnds([md |-> metadata, fs |-> files,
                       threw |-> IF stageRun.visited = {}
                                 THEN "No valid notes found for clustering" ELSE ""])
       ELSE LET noteId == nextNoteId.value IN
            IF EnrichedReadable(files, noteId) /\ noteId \in stageRun.noEmbedding
            THEN \* lines 95-99: skippedNotes++; continue
                 /\ stageRun.skippedNotes < MaxSkipped
                 /\ stageRun' = [stageRun EXCEPT !.skippedNotes = @ + 1,
                                                 !.iterations = @ + 1]
                 /\ UNCHANGED <<metadata, files, stageRestVars>>
            ELSE StageIterates(SettleNote(metadata, files, CLUSTERING, noteId,
                                          EnrichedReadable(files, noteId)),
                               noteId, EnrichedReadable(files, noteId))

\* tagAggregation.ts 118-123: ensureDirectory and startStage(CLUSTERING)
aggregateTags(dirOk) ==
    /\ stageRun.pc = "idle"
    /\ stageRun.runs < MaxStageRuns
    /\ LET r == StartStageEffect(metadata, files, CLUSTERING, Now) IN
       StageBegins("aggregateTags",
                   IF ~dirOk
                   THEN StageCatch(metadata, files, CLUSTERING, "Tag aggregation failed: ",
                                   "ensureDirectory")
                   ELSE IF r.threw # ""
                   THEN StageCatch(r.md, r.fs, CLUSTERING, "Tag aggregation failed: ",
                                   r.threw)
                   ELSE r)

\* tagAggregation.ts 129-232: one turn of the while loop; after the loop the
\* metadata file is written and the stage completed
aggregateTagsIteration(writeOk) ==
    /\ stageRun.pc = "loop"
    /\ stageRun.fn = "aggregateTags"
    /\ LET nextNoteId == getNextNoteForStage(metadata, CLUSTERING) IN
       IF nextNoteId = NullNote
       THEN LET c == CompleteEffect(metadata, files, CLUSTERING) IN
            StageEnds(IF ~writeOk
                      THEN StageCatch(metadata, files, CLUSTERING,
                                      "Tag aggregation failed: ", "JSONFileError")
                      ELSE IF c.threw # ""
                      THEN StageCatch(c.md, c.fs, CLUSTERING,
                                      "Tag aggregation failed: ", c.threw)
                      ELSE c)
       ELSE LET noteId == nextNoteId.value
                s == SettleNote(metadata, files, CLUSTERING, noteId,
                                EnrichedReadable(files, noteId)) IN
            StageIterates(IF s.threw = "" THEN s
                          ELSE StageCatch(s.md, s.fs, CLUSTERING,
                                          "Tag aggregation failed: ", s.threw),
                          noteId, EnrichedReadable(files, noteId))

\* enrichment.ts 292-298: ensureDirectory, initialize(totalNotes) and
\* startStage(ENRICHMENT)
processNotesByCheckpoint(totalNotes, dirOk) ==
    /\ stageRun.pc = "idle"
    /\ stageRun.runs < MaxStageRuns
    /\ LET init == initializeEffect(files, metadata, totalNotes, dirOk)
           w == saveMetadata(init.md)
           initThrew == IF init.threw # "" THEN init.threw
                        ELSE IF init.saves /\ w.threw
                             THEN "Failed to initialize checkpoint" ELSE ""
           fs == IF init.saves THEN WriteDone(files, w) ELSE files
           r == StartStageEffect(init.md, fs, ENRICHMENT, Now) IN
       StageBegins("processNotes",
                   IF initThrew # ""
                   THEN StageCatch(init.md, fs, ENRICHMENT,
                                   "Enrichment pipeline failed: ", initThrew)
                   ELSE IF r.threw # ""
                   THEN StageCatch(r.md, r.fs, ENRICHMENT,
                                   "Enrichment pipeline failed: ", r.threw)
                   ELSE r)

\* enrichment.ts 301-350: one turn of the while loop (the raw note is read,
\* enriched and written), and completeStage after the loop
processNotesIteration(rawOk, enrichOk, embedding) ==
    /\ stageRun.pc = "loop"
    /\ stageRun.fn = "processNotes"
    /\ LET nextNoteId == getNextNoteForStage(metadata, ENRICHMENT) IN
       IF nextNoteId = NullNote
       THEN LET c == CompleteEffect(metadata, files, ENRICHMENT) IN
            StageEnds(IF c.threw # ""
                      THEN StageCatch(c.md, c.fs, ENRICHMENT,
                                      "Enrichment pipeline failed: ", c.threw)
                      ELSE c)
       ELSE LET noteId == nextNoteId.value
                bodyOk == rawOk /\ enrichOk
                written == IF bodyOk
                           THEN [files EXCEPT ![EnrichedPath(noteId)] = EnrichedNote(noteId)]
                           ELSE files
                s == SettleNote(metadata, written, ENRICHMENT, noteId, bodyOk)
                r == IF s.threw = "" THEN s
                     ELSE StageCatch(s.md, s.fs, ENRICHMENT,
                                     "Enrichment pipeline failed: ", s.threw) IN
            /\ metadata' = r.md
            /\ files' = r.fs
            /\ stageRun' = [stageRun EXCEPT
                   !.pc = IF r.threw = "" THEN "loop" ELSE "idle",
                   !.visited = IF bodyOk THEN @ \cup {noteId} ELSE @,
                   !.iterations = @ + 1,
                   !.noEmbedding = IF bodyOk
                                   THEN (IF embedding THEN @ \ {noteId} ELSE @ \cup {noteId})
                                   ELSE @,
                   !.thrown = r.threw]
            /\ UNCHANGED stageRestVars

\* checkpoint documents left by an earlier process: ENRICHMENT in progress
\* with nothing settled, or completed, and CLUSTERING not started or begun
StageDocs ==
    {[NewMetadata(n) EXCEPT
         !.stages[ENRICHMENT] =
             [status |-> IF done THEN COMPLETED ELSE IN_PROGRESS,
              processedNoteIds |-> IF done THEN [k \in 1..n |-> toString(k - 1)] ELSE <<>>,
              failedNoteIds |-> <<>>, startTime |-> Time(0), error |-> Undefined],
         !.stages[CLUSTERING] =
             [status |-> st, processedNoteIds |-> <<>>, failedNoteIds |-> <<>>,
              startTime |-> IF st = NOT_STARTED THEN Undefined ELSE Time(0),
              error |-> Undefined]] :
        n \in 1..MaxNotes, done \in BOOLEAN, st \in {NOT_STARTED, IN_PROGRESS}}

\* a new process: the checkpoint file and the enriched notes an earlier one
\* left; the enriched notes are those of the ids ENRICHMENT has processed
InitStages ==
    /\ metadata = Null
    /\ CallersIdle
    /\ ServiceInit(<<>>)
    /\ index = IndexIdle
    /\ flagManager = FlagsIdle
    /\ \E c \in {Absent} \cup StageDocs :
          LET enriched == IF c = Absent THEN {}
                          ELSE Range(c.stages[ENRICHMENT].processedNoteIds) IN
          /\ files = [p \in Paths |->
                        IF p = FULL_PATH THEN c
                        ELSE IF \E id \in enriched : p = EnrichedPath(id)
                             THEN EnrichedNote(CHOOSE id \in enriched : p = EnrichedPath(id))
                             ELSE Absent]
          /\ \E bad \in SUBSET enriched : stageRun = [StageIdle EXCEPT !.noEmbedding = bad]

NextStages ==
    \/ loadNotesForClustering
    \/ loadNotesIteration
    \/ \E dirOk \in BOOLEAN : aggregateTags(dirOk)
    \/ \E writeOk \in BOOLEAN : aggregateTagsIteration(writeOk)
    \/ \E totalNotes \in TotalNotesInputs, dirOk \in BOOLEAN :
          processNotesByCheckpoint(totalNotes, dirOk)
    \/ \E rawOk \in BOOLEAN, enrichOk \in BOOLEAN, embedding \in BOOLEAN :
          processNotesIteration(rawOk, enrichOk, embedding)

SpecStages == InitStages /\ [][NextStages]_vars

----------------------------------------------------------------------------
(* Properties of the tracker *)

Settled(md, stage) ==
    Range(md.stages[stage].processedNoteIds) \cup Range(md.stages[stage].failedNoteIds)

\* C1: for every stage, no item id is in both processedNoteIds and
\* failedNoteIds, after any sequence of tracker calls.
C1_NoDuplicateSettlement ==
    metadata # Null =>
        \A stage \in ProcessingStage :
            Range(metadata.stages[stage].processedNoteIds)
                \cap Range(metadata.stages[stage].failedNoteIds) = {}

\* the ids of 0..totalNotes-1 that are in neither list
Unsettled(md, stage) ==
    {n \in 0..(md.totalNotes - 1) : toString(n) \notin Settled(md, stage)}

Smallest(S) == CHOOSE n \in S : \A m \in S : n <= m

\* C3: getNextNoteForStage returns the decimal string of the smallest
\* unsettled index of 0..totalNotes-1, and null exactly when there is none.
C3_NextNoteIsSmallestUnsettled ==
    (lastCall.op = "getNextNoteForStage" /\ lastCall.threw = "") =>
        LET U == Unsettled(metadata, lastCall.stage) IN
        /\ (U = {}) <=> (lastResult = NullNote)
        /\ U # {} => lastResult = StringResult(toString(Smallest(U)))

\* "1" was settled before "0", and the scan still answers from the low end
C3_Witness ==
    /\ lastCall.op = "getNextNoteForStage"
    /\ lastCall.threw = ""
    /\ metadata.totalNotes = 2
    /\ \/ /\ metadata.stages[lastCall.stage].processedNoteIds = <<"1">>
          /\ metadata.stages[lastCall.stage].failedNoteIds = <<>>
          /\ lastResult = StringResult("0")
       \/ /\ metadata.stages[lastCall.stage].failedNoteIds = <<"1", "0">>
          /\ lastResult = NullNote

StatusChange(stage, from, to) ==
    /\ metadata # Null
    /\ metadata' # Null
    /\ metadata.stages[stage].status = from
    /\ metadata'.stages[stage].status = to

\* C9: COMPLETED is terminal: no tracker call moves a stage out of COMPLETED.
C9_CompletedIsTerminal ==
    [][\A stage \in ProcessingStage, to \in StageStatus \ {COMPLETED} :
          ~StatusChange(stage, COMPLETED, to)]_vars

\* C10: a stage becomes COMPLETED or FAILED only from IN_PROGRESS and
\* becomes IN_PROGRESS only from NOT_STARTED or FAILED.
C10_OnlySpecifiedTransitions ==
    [][\A stage \in ProcessingStage, from \in StageStatus, to \in StageStatus :
          (from # to /\ StatusChange(stage, from, to)) =>
              \/ to \in {COMPLETED, FAILED} /\ from = IN_PROGRESS
              \/ to = IN_PROGRESS /\ from \in {NOT_STARTED, FAILED}]_vars

----------------------------------------------------------------------------
(* Properties of processNotes *)

CallEnded == pc \in {"returned", "threw"}

\* the run reached its batch loop
BatchesBegun == enrich # <<>>

Recorded(pos) ==
    LET id == args.notes[pos]
        sp == metadata.stages[ENRICHMENT]
    IN /\ results[pos] = "ok" =>
             Includes(sp.processedNoteIds, id) /\ ~Includes(sp.failedNoteIds, id)
       /\ results[pos] = "failed" => Includes(sp.failedNoteIds, id)

\* C2: once an id is in processedNoteIds or failedNoteIds of the stage, a
\* later run of the stage never invokes the per-item worker for it again.
C2_ResumeIdempotence ==
    [][\A pos \in DOMAIN attempts :
          (pos \in DOMAIN attempts' /\ attempts'[pos] > attempts[pos]) =>
              args.notes[pos] \notin Settled(metadata, ENRICHMENT)]_vars

\* C4: at no instant do more than parallelLimit enrichNote calls execute, for
\* the parallelLimit the caller passed to processNotes.
C4_ConcurrencyCeiling ==
    pc = "enrich" => Cardinality(Running) <= args.parallelLimit

\* C5: when the call ends, every note of the input has been attempted exactly
\* once and its outcome recorded, whatever failed for a sibling.
C5_EveryItemAttemptedOnce ==
    (CallEnded /\ BatchesBegun /\ pending = {}) =>
        \A pos \in 1..Len(args.notes) :
            attempts[pos] = 1 /\ results[pos] # "none" /\ Recorded(pos)

\* C6: once processNotes has handled a batch (and no file write failed), each
\* note whose enrichment failed is in failedNoteIds and each note whose
\* enrichment succeeded is in processedNoteIds and not in failedNoteIds.
C6_BatchOutcomesRecorded ==
    ((CallEnded \/ pc = "batch") /\ BatchesBegun /\ pending = {} /\ ~ioFailed) =>
        \A pos \in 1..Len(args.notes) : results[pos] # "none" => Recorded(pos)

IsDoc(x) == "totalNotes" \in DOMAIN x

DurableHasEveryId ==
    /\ IsDoc(files[FULL_PATH])
    /\ \A stage \in ProcessingStage :
          /\ Range(metadata.stages[stage].processedNoteIds)
                \subseteq Range(files[FULL_PATH].stages[stage].processedNoteIds)
          /\ Range(metadata.stages[stage].failedNoteIds)
                \subseteq Range(files[FULL_PATH].stages[stage].failedNoteIds)

\* the updateNoteProgress calls a batch issued together have all settled
UpdatesOfBatchSettled ==
    /\ Cardinality(DOMAIN records) >= 2
    /\ \A k \in DOMAIN records : records[k] \in {"resolved", "rejected"}
    /\ \A e \in pending : e.target # FULL_PATH /\ e.cont.kind \notin {"saveUpdate", "record"}

\* C7: after several concurrent updateNoteProgress calls have all returned,
\* the checkpoint file holds every id of the in-memory processed/failed lists.
C7_NoLostUpdate ==
    (metadata # Null /\ UpdatesOfBatchSettled) => DurableHasEveryId

IsSave(e) == e.cont.kind \in {"main", "saveUpdate", "record"}

----------------------------------------------------------------------------
(* Properties of the single tracker operations *)

\* the step is a tracker call `op` on `stage`
IsCall(op, stage) ==
    /\ calls' = calls + 1
    /\ lastCall'.op = op
    /\ lastCall'.stage = stage

\* C11: startStage on a stage that is IN_PROGRESS changes nothing: status,
\* startTime, error, both id lists and the checkpoint file stay as they were.
C11_StartStageIdempotent ==
    [][\A stage \in ProcessingStage :
          (IsCall("startStage", stage) /\ metadata # Null
              /\ metadata.stages[stage].status = IN_PROGRESS) =>
                  (metadata' = metadata /\ files' = files)]_vars

\* a stage started by this manager was started again
C11_Witness ==
    /\ lastCall.op = "startStage"
    /\ before # Null
    /\ before.stages[lastCall.stage].status = IN_PROGRESS
    /\ before.stages[lastCall.stage].startTime \notin {Undefined, Time(0)}
    /\ metadata = before

\* C12: startStage on a FAILED stage makes it IN_PROGRESS, clears the stored
\* error and leaves processedNoteIds and failedNoteIds as they were.
C12_RestartAfterFailure ==
    [][\A stage \in ProcessingStage :
          (IsCall("startStage", stage) /\ metadata # Null
              /\ metadata.stages[stage].status = FAILED) =>
                  /\ metadata'.stages[stage].status = IN_PROGRESS
                  /\ metadata'.stages[stage].error = Undefined
                  /\ metadata'.stages[stage].processedNoteIds
                        = metadata.stages[stage].processedNoteIds
                  /\ metadata'.stages[stage].failedNoteIds
                        = metadata.stages[stage].failedNoteIds]_vars

\* a failed stage holding an error and a settled id was started again
C12_Witness ==
    /\ lastCall.op = "startStage"
    /\ before # Null
    /\ before.stages[lastCall.stage].status = FAILED
    /\ before.stages[lastCall.stage].error \in ErrorInputs
    /\ Settled(before, lastCall.stage) # {}
    /\ metadata.stages[lastCall.stage].status = IN_PROGRESS

\* C13: failStage(stage, message) makes the stage FAILED with message as its
\* error and leaves processedNoteIds and failedNoteIds unchanged.
C13_FailStageKeepsIds ==
    [][\A stage \in ProcessingStage, error \in ErrorInputs :
          (failStage(stage, error) /\ metadata # Null) =>
              /\ metadata'.stages[stage].status = FAILED
              /\ metadata'.stages[stage].error = error
              /\ metadata'.stages[stage].processedNoteIds
                    = metadata.stages[stage].processedNoteIds
              /\ metadata'.stages[stage].failedNoteIds
                    = metadata.stages[stage].failedNoteIds]_vars

\* a running stage with a processed and a failed id was failed
C13_Witness ==
    /\ lastCall.op = "failStage"
    /\ before # Null
    /\ before.stages[lastCall.stage].status = IN_PROGRESS
    /\ before.stages[lastCall.stage].processedNoteIds # <<>>
    /\ before.stages[lastCall.stage].failedNoteIds # <<>>
    /\ metadata.stages[lastCall.stage].status = FAILED

\* the checkpoint file holds the document `md`
Persisted(fs, md) ==
    /\ IsDoc(fs[FULL_PATH])
    /\ fs[FULL_PATH].totalNotes = md.totalNotes
    /\ \A stage \in ProcessingStage :
          /\ fs[FULL_PATH].stages[stage].status = md.stages[stage].status
          /\ fs[FULL_PATH].stages[stage].processedNoteIds = md.stages[stage].processedNoteIds
          /\ fs[FULL_PATH].stages[stage].failedNoteIds = md.stages[stage].failedNoteIds

\* C14: initialize(n) on an existing checkpoint with another totalNotes sets
\* totalNotes to n and re-persists; every stage's status and id lists are
\* those that were stored.
C14_InitializeUpdatesTotal ==
    [][\A n \in TotalNotesInputs :
          (initialize(n, TRUE) /\ IsDoc(files[FULL_PATH])
              /\ files[FULL_PATH].totalNotes # n) =>
                  /\ metadata'.totalNotes = n
                  /\ \A stage \in ProcessingStage :
                        /\ metadata'.stages[stage].status
                              = files[FULL_PATH].stages[stage].status
                        /\ metadata'.stages[stage].processedNoteIds
                              = files[FULL_PATH].stages[stage].processedNoteIds
                        /\ metadata'.stages[stage].failedNoteIds
                              = files[FULL_PATH].stages[stage].failedNoteIds
                  /\ Persisted(files', metadata')]_vars

\* C15: with no checkpoint file, initialize(n) creates and persists a
\* document with totalNotes = n whose four stages are NOT_STARTED with empty
\* id lists.
C15_InitializeCreates ==
    [][\A n \in TotalNotesInputs :
          (initialize(n, TRUE) /\ files[FULL_PATH] = Absent) =>
              /\ metadata'.totalNotes = n
              /\ \A stage \in ProcessingStage :
                    /\ metadata'.stages[stage].status = NOT_STARTED
                    /\ metadata'.stages[stage].processedNoteIds = <<>>
                    /\ metadata'.stages[stage].failedNoteIds = <<>>
              /\ Persisted(files', metadata')]_vars

\* no id occurs twice in the list
NoDuplicates(list) ==
    \A a, b \in 1..Len(list) : list[a] = list[b] => a = b

\* C16: updateNoteProgress with an id its list already holds leaves both
\* lists unchanged, and no list ever holds an id twice.
C16_IdempotentInsert ==
    [][/\ \A stage \in ProcessingStage, noteId \in NoteIdInputs, success \in BOOLEAN :
             (/\ IsCall("updateNoteProgress", stage)
              /\ lastCall'.noteId = noteId
              /\ lastCall'.success = success
              /\ metadata # Null
              /\ Includes(IF success THEN metadata.stages[stage].processedNoteIds
                                      ELSE metadata.stages[stage].failedNoteIds, noteId)) =>
                  /\ metadata'.stages[stage].processedNoteIds
                        = metadata.stages[stage].processedNoteIds
                  /\ metadata'.stages[stage].failedNoteIds
                        = metadata.stages[stage].failedNoteIds
       /\ metadata' # Null =>
             \A stage \in ProcessingStage :
                 /\ NoDuplicates(metadata'.stages[stage].processedNoteIds)
                 /\ NoDuplicates(metadata'.stages[stage].failedNoteIds)]_vars

\* an id was recorded again with the same success value
C16_Witness ==
    /\ lastCall.op = "updateNoteProgress"
    /\ before # Null
    /\ Includes(IF lastCall.success
                THEN before.stages[lastCall.stage].processedNoteIds
                ELSE before.stages[lastCall.stage].failedNoteIds, lastCall.noteId)
    /\ metadata = before

\* what a new CheckpointManager holds after initialize(totalNotes)
Observed(fs, totalNotes) == initializeEffect(fs, Null, totalNotes, TRUE).md

\* C17: after any sequence of awaited tracker calls, a new CheckpointManager
\* that calls initialize with the same totalNotes sees, for every stage, the
\* status and id lists the first manager holds in memory.
C17_EveryMutationPersisted ==
    (metadata # Null /\ lastCall.op \in {"initialize", "startStage", "updateNoteProgress",
                                         "completeStage", "failStage"}) =>
        LET seen == Observed(files, metadata.totalNotes) IN
        \A stage \in ProcessingStage :
            /\ seen.stages[stage].status = metadata.stages[stage].status
            /\ seen.stages[stage].processedNoteIds = metadata.stages[stage].processedNoteIds
            /\ seen.stages[stage].failedNoteIds = metadata.stages[stage].failedNoteIds

----------------------------------------------------------------------------
(* Properties of getStageProgressPercentage *)

\* a < b on JavaScript numbers: false as soon as one side is NaN
LessThan(a, b) ==
    IF a.kind = "NaN" \/ b.kind = "NaN" THEN FALSE
    ELSE IF a.kind = "Infinity" THEN FALSE
    ELSE IF b.kind = "Infinity" THEN TRUE
    ELSE a.num * b.den < b.num * a.den

PercentageReturned ==
    lastCall.op = "getStageProgressPercentage" /\ lastCall.threw = ""

\* C18: the percentage is |processedNoteIds| / totalNotes * 100 with
\* failedNoteIds not counted, so a stage whose every id is settled with at
\* least one failure has getNextNoteForStage = null and a percentage below 100.
C18_PercentageExcludesFailed ==
    PercentageReturned =>
        LET sp == metadata.stages[lastCall.stage] IN
        /\ metadata.totalNotes > 0 =>
              /\ lastResult.kind = "number"
              /\ lastResult.num * metadata.totalNotes
                    = Len(sp.processedNoteIds) * 100 * lastResult.den
        /\ (Unsettled(metadata, lastCall.stage) = {} /\ sp.failedNoteIds # <<>>) =>
              /\ getNextNoteForStage(metadata, lastCall.stage) = NullNote
              /\ LessThan(lastResult, Number(100, 1))

\* C19: whatever the reachable state of an initialized tracker, the
\* percentage is a number from 0 to 100.
C19_PercentageInRange ==
    PercentageReturned =>
        /\ lastResult.kind = "number"
        /\ ~LessThan(lastResult, Number(0, 1))
        /\ ~LessThan(Number(100, 1), lastResult)

----------------------------------------------------------------------------
(* Properties of the OpenAIService *)

\* C21: the delay slept before retry number k (from 0) is 1000, 2000, 4000 and
\* from then on 8000, which is min(1000 * 2^k, 8000); no delay exceeds 8000.
C21_BackoffDelays ==
    \A o \in OpIds : \A n \in 1..Len(ops[o].delays) :
        /\ ops[o].delays[n] = (CASE n = 1 -> 1000
                                 [] n = 2 -> 2000
                                 [] n = 3 -> 4000
                                 [] OTHER -> 8000)
        /\ ops[o].delays[n] <= 8000

\* a call has slept five times: the fifth delay is past the doubling
C21_Witness == \E o \in OpIds : Len(ops[o].delays) >= 5

\* C22 as stated: with maxRetries configured as m >= 0, an operation that
\* fails every time is invoked m + 1 times before its error is rethrown, and
\* a call that has resolved or rejected invokes its operation no more.
C22_AttemptsAreRetriesPlusOne ==
    /\ [](\A o \in OpIds :
            (ops[o].phase = "rejected" /\ svc.configured # <<>>) =>
                ops[o].invocations = svc.configured[1] + 1)
    /\ [][\A o \in OpIds : Finished(o) => ops'[o] = ops[o]]_vars

\* C23 as stated: every invocation of the operation, retries included, comes
\* after a pass of its own through handleRateLimit.
C23_EveryAttemptRateLimited ==
    \A o \in OpIds : ops[o].invocations <= ops[o].limited

RECURSIVE WindowTokens(_, _, _, _)
\* the tokens of the requests of `type` sent in the minute that begins at `start`
WindowTokens(log, type, start, n) ==
    IF n = 0 THEN 0
    ELSE WindowTokens(log, type, start, n - 1)
         + (IF /\ log[n].type = type
               /\ log[n].time >= start
               /\ log[n].time < start + MINUTE
            THEN log[n].tokens ELSE 0)

\* C24 as stated: for each type, the requests sent within any one minute
\* carry no more estimated tokens than the type's budget.
C24_BudgetPerWindow ==
    \A n \in 1..Len(issued) :
        WindowTokens(issued, issued[n].type, issued[n].time, Len(issued))
            <= TOKENS_PER_MINUTE(issued[n].type)

\* C25: a step of handleRateLimit for a call of one type leaves the other
\* type's counter and last-request time alone, and suspends the call only
\* when its own type's counter plus its tokens is over its own budget.
C25_BudgetsIndependent ==
    [][\A o \in OpIds :
          (ops[o].phase \in {"new", "rateSleep"} /\ ops'[o].phase # ops[o].phase) =>
              LET type == ops'[o].type
                  other == CHOOSE t \in CallTypes : t # type
              IN
              /\ svc'.tokens[other] = svc.tokens[other]
              /\ svc'.lastTime[other] = svc.lastTime[other]
              /\ ops'[o].phase = "rateSleep" =>
                     svc.tokens[type] + ops'[o].tokens > TOKENS_PER_MINUTE(type)]_vars

\* an embedding call went through without sleeping although the completion
\* counter plus its tokens is over the embedding budget
C25_Witness ==
    \E o \in OpIds :
        /\ ops[o].type = EMBEDDINGS
        /\ ops[o].phase = "inFlight"
        /\ ops[o].wakeAt = 0
        /\ svc.tokens[COMPLETIONS] + ops[o].tokens > TOKENS_PER_MINUTE(EMBEDDINGS)

----------------------------------------------------------------------------
(* Properties of the stage runs *)

\* C26 as stated: when a failure to persist the checkpoint has escaped the
\* run of processNotes into its catch block, the run ends with ENRICHMENT
\* recorded FAILED with that error's message and raises the error of line
\* 202, which carries that message.
C26_FatalErrorRecordedAndRaised ==
    [][(pc = "awaitFailStage" /\ caught = "JSONFileError" /\ pc' = "threw") =>
          /\ caught' = PipelineFailed(caught)
          /\ metadata' # Null
          /\ metadata'.stages[ENRICHMENT].status = FAILED
          /\ metadata'.stages[ENRICHMENT].error = caught]_vars

\* status and error of every stage; a manager without metadata has marked nothing
Marks(md) ==
    [stage \in ProcessingStage |->
        IF md = Null THEN <<NOT_STARTED, Undefined>>
        ELSE <<md.stages[stage].status, md.stages[stage].error>>]

\* C27 as stated: when initialize fails in a run of processNotes, the steps
\* from its failure to the end of the run change no stage's status or error.
C27_InitializeFailureMarksNothing ==
    [][(\/ pc \in {"initialize", "awaitInitialize"} /\ pc' = "catch"
        \/ /\ pc = "catch"
           /\ caught = "Failed to initialize checkpoint"
           /\ pc' \in {"awaitFailStage", "threw"}) =>
          Marks(metadata') = Marks(metadata)]_vars

\* C29 as stated: when indexNotes has resumed RAW_EXPORT and its loop has
\* ended, the id that getNextNoteForStage returned and every higher id that
\* was unsettled have been in a chunk of this run.
C29_NoUnsettledIdSkipped ==
    (index.pc = "awaitCompleteStage" /\ index.next # NullNote) =>
        \A k \in index.unsettled :
            k >= parseInt(index.next.value) => k \in index.attempted

\* C30 as stated: when indexNotes has marked RAW_EXPORT COMPLETED, the
\* processed and failed ids of the stage are as many as totalNotes.
C30_CompletedMeansAllSettled ==
    index.pc = "awaitCompleteStage" =>
        /\ metadata.stages[RAW_EXPORT].status = COMPLETED
        /\ Len(metadata.stages[RAW_EXPORT].processedNoteIds)
             + Len(metadata.stages[RAW_EXPORT].failedNoteIds) = metadata.totalNotes

----------------------------------------------------------------------------
(* Properties of the tracker: completion, independence, initialization *)

\* isStageComplete, lines 374-379, on initialized metadata
isStageComplete(md, stage) == md.stages[stage].status = COMPLETED

\* C31 as stated: completeStage on an initialized manager succeeds whether or
\* not an id is still pending, leaves the stage COMPLETED, so that
\* isStageComplete returns true, and leaves both id lists as they were.
C31_CompleteStageCallerAsserted ==
    [][\A stage \in ProcessingStage :
          (IsCall("completeStage", stage) /\ metadata # Null) =>
              /\ lastCall'.threw = ""
              /\ isStageComplete(metadata', stage)
              /\ metadata'.stages[stage].processedNoteIds
                    = metadata.stages[stage].processedNoteIds
              /\ metadata'.stages[stage].failedNoteIds
                    = metadata.stages[stage].failedNoteIds]_vars

\* C35 as stated: startStage, updateNoteProgress, completeStage and failStage
\* on one stage of an initialized manager succeed whatever the other stages
\* are, and leave every other stage's record as it was.
C35_StagesIndependent ==
    [][\A stage \in ProcessingStage :
          (/\ calls' = calls + 1
           /\ lastCall'.op \in {"startStage", "updateNoteProgress",
                                 "completeStage", "failStage"}
           /\ lastCall'.stage = stage
           /\ metadata # Null) =>
              /\ lastCall'.threw = ""
              /\ \A other \in ProcessingStage \ {stage} :
                    metadata'.stages[other] = metadata.stages[other]]_vars

\* C38 as stated: as long as no initialize has succeeded on the manager (no
\* call was made yet, or the one call made was an initialize that threw),
\* a call of another operation throws 'Checkpoint metadata not initialized'
\* and leaves the checkpoint file alone.
C38_NothingBeforeInitialize ==
    [][(/\ calls' = calls + 1
        /\ lastCall'.op \notin {"initialize", "new"}
        /\ \/ calls = 0
           \/ calls = 1 /\ lastCall.op = "initialize" /\ lastCall.threw # "") =>
          /\ lastCall'.threw = NotInitialized
          /\ files' = files]_vars

\* C36 as stated: once indexNotes has enumerated the notes and entered its
\* loop, totalNotes of the checkpoint is the number of notes enumerated.
C36_TotalNotesIsEnumerated ==
    index.pc = "loop" => metadata.totalNotes = index.allNotes


----------------------------------------------------------------------------
(* Properties of the FeatureFlagManager *)

\* the default of the table of documented flags (docs 7-15): every flag is
\* Enabled
DocumentedDefault(flagName) == TRUE

\* C32 as stated: when resetToDefaults has returned, isEnabled(f) is the
\* documented default of every flag f, and the configuration file holds
\* that state.
C32_ResetRestoresDefaults ==
    (flagManager.op = "resetToDefaults" /\ flagManager.threw = "") =>
        /\ \A f \in FeatureFlagName : isEnabled(flagManager, f) = DocumentedDefault(f)
        /\ flagManager.file = JSONFile(flagManager.flags)

\* C33 as stated: when initialize has returned after falling back (the file
\* was missing or invalid), every flag has its default value and the file
\* holds that state; and when enableFlag, disableFlag or updateFlags has
\* returned, the file holds the flags of the manager.
C33_FallbackAndPersistence ==
    /\ (flagManager.op = "initialize" /\ flagManager.fellBack /\ flagManager.threw = "") =>
          /\ \A f \in FeatureFlagName : isEnabled(flagManager, f) = DocumentedDefault(f)
          /\ flagManager.file = JSONFile(flagManager.flags)
    /\ (flagManager.op \in {"enableFlag", "disableFlag", "updateFlags"}
            /\ flagManager.threw = "") =>
          flagManager.file = JSONFile(flagManager.flags)


----------------------------------------------------------------------------
(* Properties of the checkpoint-driven stage functions *)

\* the stage a stage function tracks its progress in
StageOf(fn) == IF fn = "processNotes" THEN ENRICHMENT ELSE CLUSTERING

\* the ids below totalNotes whose enriched note can be read
EnrichedIds(md, fs) ==
    {toString(n) : n \in {k \in 0..(md.totalNotes - 1) :
                             EnrichedReadable(fs, toString(k))}}

\* C34 as stated: every iteration of a checkpoint-driven loop settles the id
\* that getNextNoteForStage returned to it, a note without an embedding
\* included, and a loop makes at most totalNotes iterations.
C34_StageLoopTerminates ==
    /\ [](metadata # Null => stageRun.iterations <= metadata.totalNotes)
    /\ [][(stageRun.pc = "loop" /\ stageRun'.iterations = stageRun.iterations + 1) =>
             getNextNoteForStage(metadata, StageOf(stageRun.fn)).value
                 \in Settled(metadata', StageOf(stageRun.fn))]_vars

\* C37 as stated: when loadNotesForClustering or aggregateTags has ended, it
\* has visited every enriched note id of 0..totalNotes-1, whichever of the
\* two ran before it.
C37_BothVisitEveryEnrichedNote ==
    (/\ stageRun.pc = "idle"
     /\ stageRun.fn \in {"loadNotesForClustering", "aggregateTags"}
     /\ metadata # Null) =>
        EnrichedIds(metadata, files) \subseteq stageRun.visited

====
